---- MODULE Spec2Model ----
(***************************************************************************)
(* evilwm: client lifecycle and geometry state manager (src/client.c).     *)
(*                                                                         *)
(* The manager is single threaded.  Every operation of client.c is an      *)
(* operator from a state record to a state record, composed in the order   *)
(* of the C statements; an action applies one operation to the current     *)
(* state.  remove_client is split into one action per statement group so   *)
(* that the states inside the removal transaction are visible.  The X      *)
(* server is part of the state: windows, their properties, the event and   *)
(* error queues.                                                           *)
(***************************************************************************)
EXTENDS Integers, Sequences, FiniteSets, TLC

\* ------------------------------------------------------------------ bounds

MaxClients == 2      \* client records that can be allocated at once
StackClients == 3    \* the clients of the stacking specification
NVdesks == 2         \* option.vdesks: the valid desktop ids are 0..NVdesks-1
MaxIgnore == 1       \* cap on a client's ignore_unmap counter
MaxEvents == 1       \* cap on a client's queue of undelivered UnmapNotify events
MaxCoord == 2        \* the geometry inputs have x, y in -MaxCoord..MaxCoord
MaxBorder == 2       \* the geometry inputs have border widths in 0..MaxBorder
MaxHint == 1         \* the size hint inputs have components in -MaxHint..MaxHint
MaxMonitors == 3     \* a screen has at most MaxMonitors monitors
MaxClose == 2        \* an application is sent at most MaxClose close messages
MaxApps == 2         \* the options hold at most MaxApps -app matches

\* --------------------------------------------------------------- constants

NULL == 0            \* the C null pointer (no client)
None == 0            \* X11 None
PointerRoot == 1     \* X11 PointerRoot focus target

\* unsigned 0xfffffffe and 0xffffffff, held as their 32-bit signed patterns
VDESK_NONE == -2
VDESK_FIXED == -1

\* X11 window gravities, as switched on by client_gravitate
ForgetGravity == 0
NorthWestGravity == 1
NorthGravity == 2
NorthEastGravity == 3
WestGravity == 4
CenterGravity == 5
EastGravity == 6
SouthWestGravity == 7
SouthGravity == 8
SouthEastGravity == 9
StaticGravity == 10

\* XSizeHints flag bits
PMinSize == 16
PMaxSize == 32
PResizeInc == 64
PBaseSize == 256
PWinGravity == 512

\* the dock bit of the window type bitmask
EWMH_WINDOW_TYPE_DOCK == 2

\* the largest and the smallest C int
IntMax == 2147483647
IntMin == -IntMax - 1

\* DisplayWidth() / DisplayHeight() of the screen
DisplayW == 4
DisplayH == 3

Slots == 1..StackClients
Handles == 2..(2 * StackClients + 1)
Gravities == ForgetGravity..StaticGravity

\* ------------------------------------------------------------------- state

VARIABLES
  clients_tab_order,       \* list of clients, focus cycling order
  clients_mapping_order,   \* list of clients, manage order
  clients_stacking_order,  \* list of clients, back to front
  current,                 \* the selected client, or NULL
  heap,                    \* the allocated client records
  cl,                      \* the client records
  ignore_xerror,           \* the error handler's suppression flag
  wm_exit,                 \* set by the signal handler, ends the event loop
  s_vdesk,                 \* screen->vdesk
  s_active,                \* screen->active (_NET_ACTIVE_WINDOW of the root)
  pc,                      \* position inside remove_client, "idle" outside
  rc,                      \* the argument of the executing remove_client
  xwin,                    \* X server: per client window and frame state
  input_focus,             \* X server: the focus window
  grabbed,                 \* X server: the manager holds the server grab
  net_client_list,         \* root property _NET_CLIENT_LIST
  net_client_list_stacking,\* root property _NET_CLIENT_LIST_STACKING
  unmapq,                  \* per client, UnmapNotify events not yet dispatched
  xerrors,                 \* an X error of the removal is waiting to be read
  xerr_surfaced,           \* an error of the removal reached the normal path
  ret,                     \* the value returned by the last call that returns one
  monitors,                \* screen->monitors, monitors[i + 1] being monitor i
  applications             \* the -app matches, the most recent one first

vars == <<clients_tab_order, clients_mapping_order, clients_stacking_order,
          current, heap, cl, ignore_xerror, wm_exit, s_vdesk, s_active, pc, rc,
          xwin, input_focus, grabbed, net_client_list, net_client_list_stacking,
          unmapq, xerrors, xerr_surfaced, ret, monitors, applications>>

\* The state as one record, so that the C functions compose.
State ==
  [ clients_tab_order |-> clients_tab_order,
    clients_mapping_order |-> clients_mapping_order,
    clients_stacking_order |-> clients_stacking_order,
    current |-> current, heap |-> heap, cl |-> cl,
    ignore_xerror |-> ignore_xerror, wm_exit |-> wm_exit, s_vdesk |-> s_vdesk,
    s_active |-> s_active, pc |-> pc, rc |-> rc, xwin |-> xwin,
    input_focus |-> input_focus, grabbed |-> grabbed,
    net_client_list |-> net_client_list,
    net_client_list_stacking |-> net_client_list_stacking,
    unmapq |-> unmapq, xerrors |-> xerrors, xerr_surfaced |-> xerr_surfaced,
    ret |-> ret, monitors |-> monitors, applications |-> applications ]

Commit(t) ==
  /\ clients_tab_order' = t.clients_tab_order
  /\ clients_mapping_order' = t.clients_mapping_order
  /\ clients_stacking_order' = t.clients_stacking_order
  /\ current' = t.current
  /\ heap' = t.heap
  /\ cl' = t.cl
  /\ ignore_xerror' = t.ignore_xerror
  /\ wm_exit' = t.wm_exit
  /\ s_vdesk' = t.s_vdesk
  /\ s_active' = t.s_active
  /\ pc' = t.pc
  /\ rc' = t.rc
  /\ xwin' = t.xwin
  /\ input_focus' = t.input_focus
  /\ grabbed' = t.grabbed
  /\ net_client_list' = t.net_client_list
  /\ net_client_list_stacking' = t.net_client_list_stacking
  /\ unmapq' = t.unmapq
  /\ xerrors' = t.xerrors
  /\ xerr_surfaced' = t.xerr_surfaced
  /\ ret' = t.ret
  /\ monitors' = t.monitors
  /\ applications' = t.applications

\* The same for an initial state.
Start(t) ==
  /\ clients_tab_order = t.clients_tab_order
  /\ clients_mapping_order = t.clients_mapping_order
  /\ clients_stacking_order = t.clients_stacking_order
  /\ current = t.current
  /\ heap = t.heap
  /\ cl = t.cl
  /\ ignore_xerror = t.ignore_xerror
  /\ wm_exit = t.wm_exit
  /\ s_vdesk = t.s_vdesk
  /\ s_active = t.s_active
  /\ pc = t.pc
  /\ rc = t.rc
  /\ xwin = t.xwin
  /\ input_focus = t.input_focus
  /\ grabbed = t.grabbed
  /\ net_client_list = t.net_client_list
  /\ net_client_list_stacking = t.net_client_list_stacking
  /\ unmapq = t.unmapq
  /\ xerrors = t.xerrors
  /\ xerr_surfaced = t.xerr_surfaced
  /\ ret = t.ret
  /\ monitors = t.monitors
  /\ applications = t.applications

\* A free record slot, and the server state of a slot with no window.
NoClient ==
  [ window |-> None, parent |-> None, vdesk |-> 0, ignore_unmap |-> 0,
    remove |-> 0, x |-> 0, y |-> 0, width |-> 0, height |-> 0,
    border |-> 0, old_border |-> 0, win_gravity |-> ForgetGravity,
    min_width |-> 0, min_height |-> 0, max_width |-> 0, max_height |-> 0,
    base_width |-> 0, base_height |-> 0, width_inc |-> 0, height_inc |-> 0,
    win_gravity_hint |-> ForgetGravity, is_dock |-> 0 ]

\* XAllocSizeHints(): a zeroed XSizeHints; also WM_NORMAL_HINTS of a window
\* that has none.
NoHints ==
  [ flags |-> 0, min_width |-> 0, min_height |-> 0, max_width |-> 0,
    max_height |-> 0, base_width |-> 0, base_height |-> 0, width_inc |-> 0,
    height_inc |-> 0, win_gravity |-> ForgetGravity ]

NoWindow ==
  [ exists |-> FALSE,          \* the client's window exists
    frame |-> FALSE,           \* the frame (c->parent) exists
    frame_mapped |-> FALSE,
    border_pixel |-> "none",   \* frame border colour: none, bg, fg, fc
    wm_state |-> "none",       \* WM_STATE: none, Normal, Iconic, Withdrawn
    net_wm_state |-> "none",   \* _NET_WM_STATE: none, plain, focused
    net_wm_desktop |-> <<>>,   \* _NET_WM_DESKTOP: <<>> absent, <<v>> present
    allowed_actions |-> FALSE, \* _NET_WM_ALLOWED_ACTIONS present
    save_set |-> FALSE,        \* window is in the manager's save set
    parent |-> "root",         \* window's parent: root or frame
    hints |-> NoHints,         \* WM_NORMAL_HINTS
    wm_delete |-> 0,           \* WM_DELETE_WINDOW messages sent to its owner
    res |-> <<0, 0>>,          \* WM_CLASS: instance name and class, 0 for none
    window_type |-> 0,         \* _NET_WM_WINDOW_TYPE as a bitmask of types
    x |-> 0, y |-> 0, border_width |-> 0 ]

\* ------------------------------------------------------------------- lists

RECURSIVE list_delete(_, _)
list_delete(list, data) ==
  IF data = NULL \/ list = <<>> THEN list
  ELSE IF Head(list) = data THEN Tail(list)
  ELSE <<Head(list)>> \o list_delete(Tail(list), data)

list_prepend(list, data) == <<data>> \o list

list_append(list, data) == list \o <<data>>

list_to_head(list, data) ==
  IF data = NULL THEN list ELSE list_prepend(list_delete(list, data), data)

list_to_tail(list, data) ==
  IF data = NULL THEN list ELSE list_append(list_delete(list, data), data)

Elems(list) == { list[i] : i \in 1..Len(list) }

Count(list, data) == Cardinality({ i \in 1..Len(list) : list[i] = data })

\* ---------------------------------------------------------------- X server

\* A request failed: the server queues an error, which Xlib reads later.  Only
\* the errors caused by requests of the removal transaction are followed; the
\* others take the normal path whenever they are read.
XError(s) == IF s.pc # "idle" THEN [s EXCEPT !.xerrors = TRUE] ELSE s

\* XChangeProperty / XDeleteProperty on the client's window: BadWindow when the
\* window no longer exists.
XChangeProperty(s, c, prop, value) ==
  IF s.xwin[c].exists THEN [s EXCEPT !.xwin[c][prop] = value] ELSE XError(s)

XMapWindow(s, c) ==
  IF s.xwin[c].frame THEN [s EXCEPT !.xwin[c].frame_mapped = TRUE] ELSE XError(s)

\* Unmapping a mapped frame generates one UnmapNotify and takes the focus away
\* from the window inside it; unmapping an unmapped window has no effect.
XUnmapWindow(s, c) ==
  IF ~s.xwin[c].frame THEN XError(s)
  ELSE IF ~s.xwin[c].frame_mapped THEN s
  ELSE [s EXCEPT !.xwin[c].frame_mapped = FALSE,
                 !.unmapq[c] = Append(@, "wm"),
                 !.input_focus = IF @ = s.cl[c].window THEN PointerRoot ELSE @]

XSetWindowBorder(s, c, pixel) ==
  IF s.xwin[c].frame THEN [s EXCEPT !.xwin[c].border_pixel = pixel] ELSE XError(s)

\* BadWindow for a destroyed window, BadMatch for one that is not viewable:
\* unmapped by its application or inside an unmapped frame.
XSetInputFocus(s, c) ==
  IF /\ s.xwin[c].exists
     /\ \A i \in 1..Len(s.unmapq[c]) : s.unmapq[c][i] # "app"
     /\ (s.xwin[c].parent = "root" \/ s.xwin[c].frame_mapped)
  THEN [s EXCEPT !.input_focus = s.cl[c].window]
  ELSE XError(s)

XReparentWindow(s, c, x, y) ==
  IF s.xwin[c].exists
  THEN [s EXCEPT !.xwin[c].parent = "root", !.xwin[c].x = x, !.xwin[c].y = y]
  ELSE XError(s)

XSetWindowBorderWidth(s, c, bw) ==
  IF s.xwin[c].exists THEN [s EXCEPT !.xwin[c].border_width = bw] ELSE XError(s)

XRemoveFromSaveSet(s, c) ==
  IF s.xwin[c].exists THEN [s EXCEPT !.xwin[c].save_set = FALSE] ELSE XError(s)

XDestroyWindow(s, c) ==
  IF s.xwin[c].frame
  THEN [s EXCEPT !.xwin[c].frame = FALSE, !.xwin[c].frame_mapped = FALSE,
                 !.xwin[c].border_pixel = "none"]
  ELSE XError(s)

\* The error handler: with ignore_xerror set the error is discarded, otherwise
\* it takes the normal path.
handle_xerror(s) ==
  IF s.ignore_xerror = 1 THEN s ELSE [s EXCEPT !.xerr_surfaced = TRUE]

\* XSync: every pending error is read and handed to the handler.
XSync(s) ==
  [(IF s.xerrors THEN handle_xerror(s) ELSE s) EXCEPT !.xerrors = FALSE]

\* -------------------------------------------------------------------- ewmh

WindowsOf(s, list) == [i \in 1..Len(list) |-> s.cl[list[i]].window]

ewmh_set_net_client_list(s) ==
  [s EXCEPT !.net_client_list = WindowsOf(s, s.clients_mapping_order)]

ewmh_set_net_client_list_stacking(s) ==
  [s EXCEPT !.net_client_list_stacking = WindowsOf(s, s.clients_stacking_order)]

ewmh_set_net_wm_desktop(s, c) ==
  XChangeProperty(s, c, "net_wm_desktop", <<s.cl[c].vdesk>>)

\* _NET_WM_STATE of the window carries the focused flag iff c is current, and
\* the root's _NET_ACTIVE_WINDOW follows.
ewmh_set_net_wm_state(s, c) ==
  LET w == s.cl[c].window
      s1 == IF c = s.current THEN [s EXCEPT !.s_active = w]
            ELSE IF s.s_active = w THEN [s EXCEPT !.s_active = None]
            ELSE s
  IN XChangeProperty(s1, c, "net_wm_state",
                     IF c = s.current THEN "focused" ELSE "plain")

ewmh_remove_allowed_actions(s, c) ==
  XChangeProperty(s, c, "allowed_actions", FALSE)

ewmh_withdraw_client(s, c) ==
  LET s1 == XChangeProperty(s, c, "allowed_actions", FALSE)
      s2 == XChangeProperty(s1, c, "net_wm_desktop", <<>>)
  IN XChangeProperty(s2, c, "net_wm_state", "none")

\* v is unsigned: a negative pattern is a value above every desktop id.
valid_vdesk(v) == v = VDESK_FIXED \/ (0 <= v /\ v < NVdesks)

is_fixed(s, c) == s.cl[c].vdesk = VDESK_FIXED

\* ---------------------------------------------------------------- client.c

\* flags & bit, for a single-bit mask.
HasFlag(flags, bit) == (flags \div bit) % 2 = 1

\* a + b on C ints; ub is what the build produces when the sum overflows,
\* which is undefined.
AddInt(a, b, ub) ==
  IF b > 0 /\ a > IntMax - b THEN ub
  ELSE IF b < 0 /\ a < IntMin - b THEN ub
  ELSE a + b

\* A normaliser that takes a missing base size for zero.
NormalHints_BaseZero(r, size, ub_w, ub_h) ==
  LET flags == size.flags
      r1 == IF HasFlag(flags, PMinSize)
            THEN [r EXCEPT !.min_width = size.min_width,
                           !.min_height = size.min_height]
            ELSE [r EXCEPT !.min_width = 0, !.min_height = 0]
      r2 == IF HasFlag(flags, PMaxSize)
            THEN [r1 EXCEPT !.max_width = size.max_width,
                            !.max_height = size.max_height]
            ELSE [r1 EXCEPT !.max_width = 0, !.max_height = 0]
      r3 == IF HasFlag(flags, PBaseSize)
            THEN [r2 EXCEPT !.base_width = size.base_width,
                            !.base_height = size.base_height]
            ELSE [r2 EXCEPT !.base_width = 0, !.base_height = 0]
      r4 == [r3 EXCEPT !.width_inc = 1, !.height_inc = 1]
      r5 == IF HasFlag(flags, PResizeInc)
            THEN [r4 EXCEPT
                    !.width_inc = IF size.width_inc # 0 THEN size.width_inc ELSE 1,
                    !.height_inc = IF size.height_inc # 0 THEN size.height_inc ELSE 1]
            ELSE r4
      r6 == IF ~HasFlag(flags, PMinSize)
            THEN [r5 EXCEPT
                    !.min_width = AddInt(r5.base_width, r5.width_inc, ub_w),
                    !.min_height = AddInt(r5.base_height, r5.height_inc, ub_h)]
            ELSE r5
      r7 == IF HasFlag(flags, PWinGravity)
            THEN [r6 EXCEPT !.win_gravity_hint = size.win_gravity]
            ELSE [r6 EXCEPT !.win_gravity_hint = NorthWestGravity]
  IN [r7 EXCEPT !.win_gravity = r7.win_gravity_hint]

\* get_wm_normal_hints on a client record r, size being what
\* XGetWMNormalHints left in the zeroed XSizeHints.
NormalHints(r, size, ub_w, ub_h) ==
  LET flags == size.flags
      r1 == IF HasFlag(flags, PMinSize)
            THEN [r EXCEPT !.min_width = size.min_width,
                           !.min_height = size.min_height]
            ELSE [r EXCEPT !.min_width = 0, !.min_height = 0]
      r2 == IF HasFlag(flags, PMaxSize)
            THEN [r1 EXCEPT !.max_width = size.max_width,
                            !.max_height = size.max_height]
            ELSE [r1 EXCEPT !.max_width = 0, !.max_height = 0]
      r3 == IF HasFlag(flags, PBaseSize)
            THEN [r2 EXCEPT !.base_width = size.base_width,
                            !.base_height = size.base_height]
            ELSE [r2 EXCEPT !.base_width = r2.min_width,
                            !.base_height = r2.min_height]
      r4 == [r3 EXCEPT !.width_inc = 1, !.height_inc = 1]
      r5 == IF HasFlag(flags, PResizeInc)
            THEN [r4 EXCEPT
                    !.width_inc = IF size.width_inc # 0 THEN size.width_inc ELSE 1,
                    !.height_inc = IF size.height_inc # 0 THEN size.height_inc ELSE 1]
            ELSE r4
      r6 == IF ~HasFlag(flags, PMinSize)
            THEN [r5 EXCEPT
                    !.min_width = AddInt(r5.base_width, r5.width_inc, ub_w),
                    !.min_height = AddInt(r5.base_height, r5.height_inc, ub_h)]
            ELSE r5
      r7 == IF HasFlag(flags, PWinGravity)
            THEN [r6 EXCEPT !.win_gravity_hint = size.win_gravity]
            ELSE [r6 EXCEPT !.win_gravity_hint = NorthWestGravity]
  IN [r7 EXCEPT !.win_gravity = r7.win_gravity_hint]

\* long get_wm_normal_hints(struct client *c): the property of a window that
\* no longer exists cannot be read, and size stays zeroed.
get_wm_normal_hints(s, c, ub_w, ub_h) ==
  LET size == IF s.xwin[c].exists THEN s.xwin[c].hints ELSE NoHints
  IN [s EXCEPT !.cl[c] = NormalHints(@, size, ub_w, ub_h), !.ret = size.flags]

\* a / b on C ints, b positive: the quotient is truncated towards zero.
CDiv(a, b) == IF a >= 0 THEN a \div b ELSE -((-a) \div b)

\* The loop of client_monitor that lets the last monitor holding the centre
\* win.
RECURSIVE MonitorScan_LastInside(_, _, _, _, _)
MonitorScan_LastInside(ms, midx, midy, i, best) ==
  IF ~(i < Len(ms)) THEN best
  ELSE LET m == ms[i + 1]
           is_inside == /\ midx >= m.x /\ midx < m.x + m.width
                        /\ midy >= m.y /\ midy < m.y + m.height
       IN IF is_inside
          THEN MonitorScan_LastInside(ms, midx, midy, i + 1, i)
          ELSE MonitorScan_LastInside(ms, midx, midy, i + 1, best)

\* The loop of client_monitor with the far edges of a monitor inside it.
RECURSIVE MonitorScan_Closed(_, _, _, _, _)
MonitorScan_Closed(ms, midx, midy, i, best) ==
  IF ~(i < Len(ms)) THEN best
  ELSE LET m == ms[i + 1]
           is_inside == /\ midx >= m.x /\ midx <= m.x + m.width
                        /\ midy >= m.y /\ midy <= m.y + m.height
           was_inside == best # NULL - 1
       IN IF is_inside /\ ~was_inside
          THEN MonitorScan_Closed(ms, midx, midy, i + 1, i)
          ELSE MonitorScan_Closed(ms, midx, midy, i + 1, best)

\* The loop of client_monitor from monitor i on: best is the monitor found so
\* far, NULL - 1 standing for no monitor; was_inside is best # NULL.
RECURSIVE MonitorScan(_, _, _, _, _)
MonitorScan(ms, midx, midy, i, best) ==
  IF ~(i < Len(ms)) THEN best
  ELSE LET m == ms[i + 1]
           is_inside == /\ midx >= m.x /\ midx < m.x + m.width
                        /\ midy >= m.y /\ midy < m.y + m.height
           was_inside == best # NULL - 1
       IN IF is_inside /\ ~was_inside
          THEN MonitorScan(ms, midx, midy, i + 1, i)
          ELSE MonitorScan(ms, midx, midy, i + 1, best)

\* struct monitor *client_monitor(struct client *c): the index of the monitor
\* returned.
client_monitor(s, c) ==
  LET midx == s.cl[c].x + CDiv(s.cl[c].width, 2)
      midy == s.cl[c].y + CDiv(s.cl[c].height, 2)
      best == MonitorScan(s.monitors, midx, midy, 0, NULL - 1)
  IN [s EXCEPT !.ret = IF best # NULL - 1 THEN best ELSE 0]

\* void update_window_type_flags(struct client *c, unsigned type)
update_window_type_flags(s, c, type) ==
  [s EXCEPT !.cl[c].is_dock = IF HasFlag(type, EWMH_WINDOW_TYPE_DOCK) THEN 1 ELSE 0]

\* void get_window_type(struct client *c): the property of a window that no
\* longer exists reads as no type.
get_window_type(s, c) ==
  LET type == IF s.xwin[c].exists THEN s.xwin[c].window_type ELSE 0
  IN update_window_type_flags(s, c, type)

\* struct client *find_client(Window w): first client of the tab order list
\* that has w as its frame or its window.
RECURSIVE FindIn(_, _, _)
FindIn(list, recs, w) ==
  IF list = <<>> THEN NULL
  ELSE IF w = recs[Head(list)].parent \/ w = recs[Head(list)].window
       THEN Head(list)
  ELSE FindIn(Tail(list), recs, w)

\* Mutant: the loop compares w with c->window only.
RECURSIVE FindWindowIn(_, _, _)
FindWindowIn(list, recs, w) ==
  IF list = <<>> THEN NULL
  ELSE IF w = recs[Head(list)].window THEN Head(list)
  ELSE FindWindowIn(Tail(list), recs, w)

find_client_WindowOnly(s, w) == FindWindowIn(s.clients_tab_order, s.cl, w)

find_client(s, w) == FindIn(s.clients_tab_order, s.cl, w)

set_wm_state(s, c, state) == XChangeProperty(s, c, "wm_state", state)

\* A client_hide that does not count the unmap it causes.
client_hide_NoCount(s, c) ==
  LET s1 == s
      s2 == XUnmapWindow(s1, c)
  IN set_wm_state(s2, c, "Iconic")

client_hide(s, c) ==
  LET s1 == [s EXCEPT !.cl[c].ignore_unmap = @ + 1]
      s2 == XUnmapWindow(s1, c)
  IN set_wm_state(s2, c, "Iconic")

client_show(s, c) == set_wm_state(XMapWindow(s, c), c, "Normal")

\* Mutant: the stacking list is published before the client is moved.
client_raise_PublishFirst(s, c) ==
  [ewmh_set_net_client_list_stacking(s)
     EXCEPT !.clients_stacking_order = list_to_tail(@, c)]

client_raise(s, c) ==
  ewmh_set_net_client_list_stacking(
    [s EXCEPT !.clients_stacking_order = list_to_tail(@, c)])

\* A lower that takes the client to the head of the tab order as well.
client_lower_AlsoTab(s, c) ==
  ewmh_set_net_client_list_stacking(
    [s EXCEPT !.clients_stacking_order = list_to_head(@, c),
              !.clients_tab_order = list_to_head(@, c)])

client_lower(s, c) ==
  ewmh_set_net_client_list_stacking(
    [s EXCEPT !.clients_stacking_order = list_to_head(@, c)])

\* The switch of client_gravitate: the offset for a gravity and a border width.
\* A dx that lets an unknown gravity stay where it is.
GravityDx_OtherZero(g, bw) ==
  CASE g = NorthGravity -> 0
    [] g = NorthEastGravity -> -bw
    [] g = EastGravity -> -bw
    [] g = CenterGravity -> 0
    [] g = WestGravity -> bw
    [] g = SouthWestGravity -> bw
    [] g = SouthGravity -> 0
    [] g = SouthEastGravity -> -bw
    [] g = NorthWestGravity -> bw
    [] OTHER -> 0

GravityDx(g, bw) ==
  CASE g = NorthGravity -> 0
    [] g = NorthEastGravity -> -bw
    [] g = EastGravity -> -bw
    [] g = CenterGravity -> 0
    [] g = WestGravity -> bw
    [] g = SouthWestGravity -> bw
    [] g = SouthGravity -> 0
    [] g = SouthEastGravity -> -bw
    [] OTHER -> bw

GravityDy(g, bw) ==
  CASE g = NorthGravity -> bw
    [] g = NorthEastGravity -> bw
    [] g = EastGravity -> 0
    [] g = CenterGravity -> 0
    [] g = WestGravity -> 0
    [] g = SouthWestGravity -> -bw
    [] g = SouthGravity -> -bw
    [] g = SouthEastGravity -> -bw
    [] OTHER -> bw

\* A client_gravitate that decides both axes on the x axis.
Gravitated_OneTest(r, bw) ==
  LET dx == GravityDx(r.win_gravity, bw)
      dy == GravityDy(r.win_gravity, bw)
  IN IF r.x # 0 \/ r.width # DisplayW
     THEN [r EXCEPT !.x = @ + dx, !.y = @ + dy]
     ELSE r

\* client_gravitate on a client record r.
Gravitated(r, bw) ==
  LET dx == GravityDx(r.win_gravity, bw)
      dy == GravityDy(r.win_gravity, bw)
      r1 == IF r.x # 0 \/ r.width # DisplayW THEN [r EXCEPT !.x = @ + dx] ELSE r
  IN IF r1.y # 0 \/ r1.height # DisplayH THEN [r1 EXCEPT !.y = @ + dy] ELSE r1

client_gravitate(s, c, bw) == [s EXCEPT !.cl[c] = Gravitated(@, bw)]

\* Mutant: the old selection's state is republished before current is updated.
select_client_PublishEarly(s, c) ==
  LET old_current == s.current
      s1 == IF s.current # NULL THEN XSetWindowBorder(s, s.current, "bg") ELSE s
      bpixel == IF is_fixed(s1, c) THEN "fc" ELSE "fg"
      s2 == IF c # NULL
            THEN XSetInputFocus(XSetWindowBorder(s1, c, bpixel), c)
            ELSE s1
      s3 == IF old_current # NULL THEN ewmh_set_net_wm_state(s2, old_current) ELSE s2
      s4 == [s3 EXCEPT !.current = c]
  IN IF c # NULL THEN ewmh_set_net_wm_state(s4, c) ELSE s4

\* A select that resets the border of the old selection last.
select_client_ResetLast(s, c) ==
  LET old_current == s.current
      bpixel == IF is_fixed(s, c) THEN "fc" ELSE "fg"
      s1 == IF c # NULL
            THEN XSetInputFocus(XSetWindowBorder(s, c, bpixel), c)
            ELSE s
      s2 == IF s.current # NULL THEN XSetWindowBorder(s1, s.current, "bg") ELSE s1
      s3 == [s2 EXCEPT !.current = c]
      s4 == IF old_current # NULL THEN ewmh_set_net_wm_state(s3, old_current) ELSE s3
  IN IF c # NULL THEN ewmh_set_net_wm_state(s4, c) ELSE s4

select_client(s, c) ==
  LET old_current == s.current
      s1 == IF s.current # NULL THEN XSetWindowBorder(s, s.current, "bg") ELSE s
      bpixel == IF is_fixed(s1, c) THEN "fc" ELSE "fg"
      s2 == IF c # NULL
            THEN XSetInputFocus(XSetWindowBorder(s1, c, bpixel), c)
            ELSE s1
      s3 == [s2 EXCEPT !.current = c]
      s4 == IF old_current # NULL THEN ewmh_set_net_wm_state(s3, old_current) ELSE s3
  IN IF c # NULL THEN ewmh_set_net_wm_state(s4, c) ELSE s4

\* The _NET_WM_STATE publications of select_client in the order they are
\* made: the client, and whether it is current when its state is published.
select_publications(s, c) ==
  LET old_current == s.current
      current_now == c
  IN (IF old_current # NULL
      THEN << [client |-> old_current, focused |-> (old_current = current_now)] >>
      ELSE << >>)
     \o (IF c # NULL
         THEN << [client |-> c, focused |-> (c = current_now)] >>
         ELSE << >>)

\* Mutant: the fixed pseudo-desktop is not treated as visible.
client_to_vdesk_NoFixed(s, c, vdesk) ==
  IF valid_vdesk(vdesk)
  THEN LET s1 == [s EXCEPT !.cl[c].vdesk = vdesk]
           s2 == IF s1.cl[c].vdesk = s1.s_vdesk
                 THEN client_show(s1, c)
                 ELSE client_hide(s1, c)
           s3 == ewmh_set_net_wm_desktop(s2, c)
       IN select_client(s3, s3.current)
  ELSE s

\* Mutant: the desktop id is not validated.
client_to_vdesk_Unchecked(s, c, vdesk) ==
  LET s1 == [s EXCEPT !.cl[c].vdesk = vdesk]
      s2 == IF s1.cl[c].vdesk = s1.s_vdesk \/ s1.cl[c].vdesk = VDESK_FIXED
            THEN client_show(s1, c)
            ELSE client_hide(s1, c)
      s3 == ewmh_set_net_wm_desktop(s2, c)
  IN select_client(s3, s3.current)

\* A move that does not select the selection again.
client_to_vdesk_NoReselect(s, c, vdesk) ==
  IF valid_vdesk(vdesk)
  THEN LET s1 == [s EXCEPT !.cl[c].vdesk = vdesk]
           s2 == IF s1.cl[c].vdesk = s1.s_vdesk \/ s1.cl[c].vdesk = VDESK_FIXED
                 THEN client_show(s1, c)
                 ELSE client_hide(s1, c)
       IN ewmh_set_net_wm_desktop(s2, c)
  ELSE s

client_to_vdesk(s, c, vdesk) ==
  IF valid_vdesk(vdesk)
  THEN LET s1 == [s EXCEPT !.cl[c].vdesk = vdesk]
           s2 == IF s1.cl[c].vdesk = s1.s_vdesk \/ s1.cl[c].vdesk = VDESK_FIXED
                 THEN client_show(s1, c)
                 ELSE client_hide(s1, c)
           s3 == ewmh_set_net_wm_desktop(s2, c)
       IN select_client(s3, s3.current)
  ELSE s

\* remove_client(c), c = s.rc, one operator per statement group; s.pc names the
\* statement that executes next.
\* Mutant: the server is not grabbed.
remove_grab_NoGrab(s) == [s EXCEPT !.pc = "ignore"]

remove_grab(s) == [s EXCEPT !.grabbed = TRUE, !.pc = "ignore"]

remove_ignore(s) == [s EXCEPT !.ignore_xerror = 1, !.pc = "state"]

\* A withdrawal that does not redirect the input focus.
remove_state_NoRefocus(s) ==
  LET c == s.rc
      s1 == IF s.cl[c].remove # 0
            THEN ewmh_withdraw_client(set_wm_state(s, c, "Withdrawn"), c)
            ELSE ewmh_remove_allowed_actions(s, c)
  IN [s1 EXCEPT !.pc = "geom"]

\* Mutant: the mode is not looked at, every removal withdraws.
remove_state_AlwaysWithdraw(s) ==
  LET c == s.rc
      f == IF c = s.current THEN [s EXCEPT !.input_focus = PointerRoot] ELSE s
      s1 == ewmh_withdraw_client(set_wm_state(f, c, "Withdrawn"), c)
  IN [s1 EXCEPT !.pc = "geom"]

remove_state(s) ==
  LET c == s.rc
      s1 == IF s.cl[c].remove # 0
            THEN LET f == IF c = s.current
                          THEN [s EXCEPT !.input_focus = PointerRoot]
                          ELSE s
                 IN ewmh_withdraw_client(set_wm_state(f, c, "Withdrawn"), c)
            ELSE ewmh_remove_allowed_actions(s, c)
  IN [s1 EXCEPT !.pc = "geom"]

\* Mutant: the offset of the original border is not applied again.
RemoveGeometry_NoOldBorder(r) ==
  LET r1 == Gravitated(r, -r.border)
  IN [r1 EXCEPT !.x = @ - r1.old_border, !.y = @ - r1.old_border]

RemoveGeometry(r) ==
  LET r1 == Gravitated(r, -r.border)
      r2 == Gravitated(r1, r1.old_border)
  IN [r2 EXCEPT !.x = @ - r2.old_border, !.y = @ - r2.old_border]

remove_geom(s) == [s EXCEPT !.cl[s.rc] = RemoveGeometry(@), !.pc = "reparent"]

remove_reparent(s) ==
  [XReparentWindow(s, s.rc, s.cl[s.rc].x, s.cl[s.rc].y) EXCEPT !.pc = "border"]

remove_border(s) ==
  [XSetWindowBorderWidth(s, s.rc, s.cl[s.rc].old_border) EXCEPT !.pc = "saveset"]

remove_saveset(s) == [XRemoveFromSaveSet(s, s.rc) EXCEPT !.pc = "destroy"]

remove_destroy(s) ==
  [(IF s.cl[s.rc].parent # None THEN XDestroyWindow(s, s.rc) ELSE s)
     EXCEPT !.pc = "unlink"]

\* Mutant: the client is left in the stacking order list.
RemoveFromLists_KeepStacking(s, c) ==
  [s EXCEPT !.clients_tab_order = list_delete(@, c),
            !.clients_mapping_order = list_delete(@, c)]

RemoveFromLists(s, c) ==
  [s EXCEPT !.clients_tab_order = list_delete(@, c),
            !.clients_mapping_order = list_delete(@, c),
            !.clients_stacking_order = list_delete(@, c)]

remove_unlink(s) == [RemoveFromLists(s, s.rc) EXCEPT !.pc = "publish"]

\* A republication that does not look at the mode.
remove_publish_Always(s) ==
  [ewmh_set_net_client_list_stacking(ewmh_set_net_client_list(s))
     EXCEPT !.pc = "deselect"]

remove_publish(s) ==
  [(IF s.cl[s.rc].remove # 0
    THEN ewmh_set_net_client_list_stacking(ewmh_set_net_client_list(s))
    ELSE s) EXCEPT !.pc = "deselect"]

\* A removal that clears the Selection whoever is selected.
remove_deselect_Always(s) ==
  [ewmh_set_net_wm_state([s EXCEPT !.current = NULL], s.rc) EXCEPT !.pc = "free"]

\* A removal that leaves the Selection alone.
remove_deselect_Never(s) == [s EXCEPT !.pc = "free"]

remove_deselect(s) ==
  [(IF s.current = s.rc
    THEN ewmh_set_net_wm_state([s EXCEPT !.current = NULL], s.rc)
    ELSE s) EXCEPT !.pc = "free"]

remove_free(s) ==
  [s EXCEPT !.heap = @ \ {s.rc}, !.cl[s.rc] = NoClient,
            !.unmapq[s.rc] = <<>>, !.pc = "ungrab"]

\* An ungrab that already clears ignore_xerror, ahead of XSync.
remove_ungrab_ClearEarly(s) ==
  [s EXCEPT !.grabbed = FALSE, !.ignore_xerror = 0, !.pc = "sync"]

remove_ungrab(s) == [s EXCEPT !.grabbed = FALSE, !.pc = "sync"]

\* Mutant: no XSync before the flag is cleared.
remove_sync_NoSync(s) == [s EXCEPT !.pc = "clear"]

remove_sync(s) == [XSync(s) EXCEPT !.pc = "clear"]

\* Mutant: ignore_xerror is left set.
remove_clear_KeepFlag(s) ==
  [s EXCEPT !.pc = "idle", !.rc = NULL, !.xwin[s.rc] = NoWindow]

\* The last statement and the return; the window is no longer the manager's.
remove_clear(s) ==
  [s EXCEPT !.ignore_xerror = 0, !.pc = "idle", !.rc = NULL,
            !.xwin[s.rc] = NoWindow]

\* The whole of remove_client(c), called with rc = c and pc = "grab".
remove_client(s) ==
  remove_clear(remove_sync(remove_ungrab(remove_free(remove_deselect(
    remove_publish(remove_unlink(remove_destroy(remove_saveset(remove_border(
      remove_reparent(remove_geom(remove_state(remove_ignore(
        remove_grab(s)))))))))))))))

\* XKillClient: the server closes the application's connection and destroys
\* its window, and the properties on it.
XKillClient(s, c) ==
  IF s.xwin[c].exists
  THEN [s EXCEPT !.xwin[c] = [NoWindow EXCEPT !.frame = s.xwin[c].frame,
                                !.frame_mapped = s.xwin[c].frame_mapped,
                                !.border_pixel = s.xwin[c].border_pixel,
                                !.wm_delete = s.xwin[c].wm_delete],
                 !.input_focus = IF @ = s.cl[c].window THEN PointerRoot ELSE @]
  ELSE XError(s)

\* send_xmessage(c->window, X_ATOM(WM_PROTOCOLS), X_ATOM(WM_DELETE_WINDOW)):
\* the message is delivered to the owner of the window.
send_xmessage(s, c) ==
  IF s.xwin[c].exists THEN [s EXCEPT !.xwin[c].wm_delete = @ + 1] ELSE XError(s)

\* A send_wm_delete that sends the message whenever it is not told to kill.
send_wm_delete_NoQuery(s, c, kill_client, protocols) ==
  LET found == IF kill_client = 0 THEN 1 ELSE 0
  IN IF found # 0 THEN send_xmessage(s, c) ELSE XKillClient(s, c)

\* send_wm_delete(c, kill_client).  protocols is what XGetWMProtocols returns:
\* "fail" (status 0), "none" (a list without WM_DELETE_WINDOW) or "delete" (a
\* list with it).
send_wm_delete(s, c, kill_client, protocols) ==
  LET found == IF kill_client = 0 /\ protocols # "fail"
               THEN (IF protocols = "delete" THEN 1 ELSE 0)
               ELSE 0
  IN IF found # 0 THEN send_xmessage(s, c) ELSE XKillClient(s, c)

\* ------------------------------------------------------------------ main.c

\* set_app with the new match put at the end of the list.
set_app_Append(s, name, class, junk) ==
  LET new == [ res_name |-> name, res_class |-> class, geometry_mask |-> 0,
               x |-> junk, y |-> junk, width |-> junk, height |-> junk,
               is_dock |-> 0, vdesk |-> VDESK_NONE ]
  IN [s EXCEPT !.applications = list_append(@, new)]

\* static void set_app(const char *arg): arg is "name/class"; an empty name or
\* class is stored as NULL.  x, y, width and height of the new record are not
\* initialised: junk is what the allocation holds.
set_app(s, name, class, junk) ==
  LET new == [ res_name |-> name, res_class |-> class, geometry_mask |-> 0,
               x |-> junk, y |-> junk, width |-> junk, height |-> junk,
               is_dock |-> 0, vdesk |-> VDESK_NONE ]
  IN [s EXCEPT !.applications = list_prepend(@, new)]

\* static void set_app_geometry(const char *arg): geom is what XParseGeometry
\* makes of arg, which stores only the values its mask names (XValue 1,
\* YValue 2, WidthValue 4, HeightValue 8).
set_app_geometry(s, geom) ==
  IF s.applications # <<>>
  THEN [s EXCEPT !.applications[1] =
          [@ EXCEPT !.geometry_mask = geom.mask,
                    !.x = IF HasFlag(geom.mask, 1) THEN geom.x ELSE @,
                    !.y = IF HasFlag(geom.mask, 2) THEN geom.y ELSE @,
                    !.width = IF HasFlag(geom.mask, 4) THEN geom.width ELSE @,
                    !.height = IF HasFlag(geom.mask, 8) THEN geom.height ELSE @]]
  ELSE s

\* static void set_app_dock(void)
set_app_dock(s) ==
  IF s.applications # <<>> THEN [s EXCEPT !.applications[1].is_dock = 1] ELSE s

\* static void set_app_vdesk(const char *arg): v is atoi(arg) as unsigned.
set_app_vdesk(s, v) ==
  IF s.applications # <<>> /\ valid_vdesk(v)
  THEN [s EXCEPT !.applications[1].vdesk = v]
  ELSE s

\* static void set_app_fixed(void)
set_app_fixed(s) ==
  IF s.applications # <<>>
  THEN [s EXCEPT !.applications[1].vdesk = VDESK_FIXED]
  ELSE s

\* ------------------------------------------------------------ registration

\* Manage a window: the record is filled in, the frame is created around the
\* window, the client is appended to the three lists and made visible iff it
\* is on the screen's current vdesk or fixed.
Register(s, c, w, p, v, g) ==
  LET rec == [ window |-> w, parent |-> p, vdesk |-> v, ignore_unmap |-> 0,
               remove |-> 0, x |-> g.x, y |-> g.y, width |-> g.width,
               height |-> g.height, border |-> g.border,
               old_border |-> g.old_border, win_gravity |-> g.win_gravity,
               min_width |-> 1, min_height |-> 1, max_width |-> 0,
               max_height |-> 0, base_width |-> 0, base_height |-> 0,
               width_inc |-> 1, height_inc |-> 1,
               win_gravity_hint |-> g.win_gravity, is_dock |-> 0 ]
      win == [ NoWindow EXCEPT !.exists = TRUE, !.border_pixel = "bg", !.frame = TRUE,
               !.allowed_actions = TRUE, !.save_set = TRUE, !.parent = "frame",
               !.border_width = 0 ]
      s1 == [s EXCEPT !.heap = @ \cup {c}, !.cl[c] = rec, !.xwin[c] = win,
                      !.unmapq[c] = <<>>,
                      !.clients_tab_order = list_append(@, c),
                      !.clients_mapping_order = list_append(@, c),
                      !.clients_stacking_order = list_append(@, c)]
      s2 == ewmh_set_net_client_list_stacking(ewmh_set_net_client_list(s1))
      s3 == ewmh_set_net_wm_desktop(s2, c)
  IN IF v = s3.s_vdesk \/ v = VDESK_FIXED
     THEN client_show(s3, c)
     ELSE set_wm_state(s3, c, "Iconic")

\* The -app match a applies to a window of WM_CLASS res: each of name and
\* class is absent from the match or equal to the window's.
Matches(a, res) ==
  /\ a.res_name = 0 \/ a.res_name = res[1]
  /\ a.res_class = 0 \/ a.res_class = res[2]

\* The matches of the list apps applied to client record r in list order.
RECURSIVE ApplyMatches(_, _, _)
ApplyMatches(r, apps, res) ==
  IF apps = <<>> THEN r
  ELSE LET a == Head(apps)
           r1 == IF Matches(a, res)
                 THEN [r EXCEPT
                         !.is_dock = IF a.is_dock # 0 THEN 1 ELSE @,
                         !.vdesk = IF a.vdesk # VDESK_NONE THEN a.vdesk ELSE @]
                 ELSE r
       IN ApplyMatches(r1, Tail(apps), res)

\* Manage a window of WM_CLASS res and window type type: the window type is
\* classified, then the dock flag and the default vdesk of the -app matches
\* are applied, then the client is registered on its vdesk.
Manage(s, c, w, p, g, res, type) ==
  LET r == ApplyMatches([NoClient EXCEPT !.vdesk = s.s_vdesk,
                           !.is_dock = IF HasFlag(type, EWMH_WINDOW_TYPE_DOCK)
                                       THEN 1 ELSE 0],
                        s.applications, res)
      s1 == Register(s, c, w, p, r.vdesk, g)
  IN [s1 EXCEPT !.cl[c].is_dock = r.is_dock, !.xwin[c].res = res,
                !.xwin[c].window_type = type]

\* ------------------------------------------------------------------ inputs

Vdesks == (0..(NVdesks - 1)) \cup {VDESK_FIXED}
VdeskInputs == (0..NVdesks) \cup {VDESK_FIXED, VDESK_NONE}

\* The geometry of the clients of the registry specification.
MainGeoms ==
  { [ x |-> 1, y |-> 1, width |-> 2, height |-> 2, border |-> 1,
      old_border |-> 0, win_gravity |-> NorthWestGravity ] }

\* The geometries of the geometry specification: every gravity, positions
\* around the origin, a size that fills the display and one that does not on
\* each axis, every pair of border widths; and the client of the end-to-end
\* scenario.
Coords == (-MaxCoord)..MaxCoord
Borders == 0..MaxBorder
Deltas == (-MaxBorder)..MaxBorder

ScenarioGeom ==
  [ x |-> 10, y |-> 10, width |-> 50, height |-> 50, border |-> 2,
    old_border |-> 1, win_gravity |-> SouthEastGravity ]

GeomInputs ==
  [ x : Coords, y : Coords, width : {DisplayW, 2}, height : {DisplayH, 2},
    border : Borders, old_border : Borders, win_gravity : Gravities ]
  \cup {ScenarioGeom}

\* The WM_NORMAL_HINTS of the size hint specification: every combination of
\* the five flags, components around zero and at the end of the int range.
SmallVals == (-MaxHint)..MaxHint
HintVals == SmallVals \cup {IntMax}
SizeVals == {0, MaxHint + 1}
FlagBits == {PMinSize, PMaxSize, PResizeInc, PBaseSize, PWinGravity}

RECURSIVE SumOf(_)
SumOf(S) == IF S = {} THEN 0 ELSE LET b == CHOOSE b \in S : TRUE
                                  IN b + SumOf(S \ {b})

FlagInputs == { SumOf(S) : S \in SUBSET FlagBits }

HintInputs ==
  [ flags : FlagInputs, min_width : SizeVals, min_height : SizeVals,
    max_width : SizeVals, max_height : SizeVals,
    base_width : HintVals, base_height : SmallVals,
    width_inc : HintVals, height_inc : SmallVals,
    win_gravity : {SouthEastGravity, StaticGravity} ]

\* What an overflowing int sum may come out as.
UBOutcomes == {IntMin, 0}

\* The monitor layouts of the monitor specification: every list of one to
\* MaxMonitors rectangles on or across the display, overlapping or not, and
\* the three monitors of the spec's scenario.
MonitorRects ==
  [ x : {0, 2}, y : {0}, width : {2, DisplayW}, height : {1, DisplayH} ]

ExampleMonitors ==
  << [x |-> 0, y |-> 0, width |-> 100, height |-> 100],
     [x |-> 100, y |-> 0, width |-> 100, height |-> 100],
     [x |-> 200, y |-> 0, width |-> 100, height |-> 100] >>

MonitorInputs ==
  UNION { [1..n -> MonitorRects] : n \in 1..MaxMonitors } \cup {ExampleMonitors}

\* Clients whose centre is on, between and off the monitors.
MonitorGeoms ==
  [ x : (-1)..(DisplayW + 1), y : (-1)..DisplayH, width : {1, 2},
    height : {1, 2}, border : {1}, old_border : {0},
    win_gravity : {NorthWestGravity} ]
  \cup [ x : {50, 100, 450}, y : {0}, width : {100}, height : {100}, border : {1},
         old_border : {0}, win_gravity : {NorthWestGravity} ]

\* The options of the application specification: names and classes that are
\* empty or not, geometry strings naming a size, a position, both or
\* nothing, every vdesk argument; window types with and without the dock bit.
AppArgs == { <<1, 0>>, <<0, 1>>, <<1, 1>> }
GeometryArgs ==
  { [mask |-> 0, x |-> 0, y |-> 0, width |-> 0, height |-> 0],
    [mask |-> 12, x |-> 0, y |-> 0, width |-> 2, height |-> 2],
    [mask |-> 3, x |-> 1, y |-> 1, width |-> 0, height |-> 0],
    [mask |-> 15, x |-> 1, y |-> 1, width |-> 2, height |-> 2] }
TypeInputs == {0, 1, EWMH_WINDOW_TYPE_DOCK}

\* X resource ids are unique: the window and the frame of the client in
\* record c.
NewHandles(c) == { <<2 * c, 2 * c + 1>> }

WithinBounds(t) ==
  \A c \in Slots : t.cl[c].ignore_unmap <= MaxIgnore /\ Len(t.unmapq[c]) <= MaxEvents

Idle == pc = "idle"

\* The event loop dispatches an event: while (!wm_exit), between operations.
Running == pc = "idle" /\ wm_exit = 0

InitState(v) ==
  [ clients_tab_order |-> <<>>, clients_mapping_order |-> <<>>,
    clients_stacking_order |-> <<>>, current |-> NULL, heap |-> {},
    cl |-> [c \in Slots |-> NoClient], ignore_xerror |-> 0, wm_exit |-> 0,
    s_vdesk |-> v,
    s_active |-> None, pc |-> "idle", rc |-> NULL,
    xwin |-> [c \in Slots |-> NoWindow], input_focus |-> PointerRoot,
    grabbed |-> FALSE, net_client_list |-> <<>>,
    net_client_list_stacking |-> <<>>, unmapq |-> [c \in Slots |-> <<>>],
    xerrors |-> FALSE, xerr_surfaced |-> FALSE, ret |-> 0,
    monitors |-> << [x |-> 0, y |-> 0, width |-> DisplayW, height |-> DisplayH] >>,
    applications |-> <<>> ]

Init == \E v \in {0} : Start(InitState(v))

\* StackClients managed clients, client n on desktop f[n].
RECURSIVE RegisterAll(_, _, _)
RegisterAll(s, n, f) ==
  IF n = 0 THEN s
  ELSE LET g == CHOOSE m \in MainGeoms : TRUE
       IN Register(RegisterAll(s, n - 1, f), n, 2 * n, 2 * n + 1, f[n], g)

InitStack ==
  \E f \in [Slots -> Vdesks] : Start(RegisterAll(InitState(0), StackClients, f))

\* main() before the options are parsed.
InitApps == Start([InitState(0) EXCEPT !.pc = "main"])

\* One client being managed, its window carrying any WM_NORMAL_HINTS.
InitHints ==
  \E h \in HintInputs, g \in MainGeoms :
    Start([Register(InitState(0), 1, 2, 3, 0, g) EXCEPT !.xwin[1].hints = h])

\* One managed client of any position and size on a screen of any monitors.
InitMonitor ==
  \E ms \in MonitorInputs, g \in MonitorGeoms :
    Start([Register(InitState(0), 1, 2, 3, 0, g) EXCEPT !.monitors = ms])

\* One managed client, of any geometry.
InitGeom ==
  \E g \in GeomInputs, h \in NewHandles(1) :
    Start(Register(InitState(0), 1, h[1], h[2], 0, g))

\* ----------------------------------------------------------------- actions

\* The dispatcher manages a new window in the first free record.
DoRegister ==
  \E c \in 1..MaxClients, w \in Handles, p \in Handles, v \in Vdesks,
     g \in MainGeoms :
    /\ Running
    /\ c \notin heap
    /\ \A d \in (1..MaxClients) \ heap : c <= d
    /\ <<w, p>> \in NewHandles(c)
    /\ Commit(Register(State, c, w, p, v, g))

DoShow ==
  \E c \in heap :
    /\ Running
    /\ ~xwin[c].frame_mapped
    /\ Commit(client_show(State, c))

DoHide ==
  \E c \in heap :
    /\ Running
    /\ xwin[c].frame_mapped
    /\ WithinBounds(client_hide(State, c))
    /\ Commit(client_hide(State, c))

DoRaise == \E c \in heap : Running /\ Commit(client_raise(State, c))

DoLower == \E c \in heap : Running /\ Commit(client_lower(State, c))

DoSelect ==
  \E c \in heap \cup {NULL} :
    /\ Running
    /\ c # NULL => xwin[c].frame_mapped
    /\ Commit(select_client(State, c))

DoToVdesk ==
  \E c \in heap, v \in VdeskInputs :
    /\ Running
    /\ WithinBounds(client_to_vdesk(State, c, v))
    /\ Commit(client_to_vdesk(State, c, v))

\* The border width of a client changes by bw.
DoGravitate ==
  \E c \in heap, bw \in Deltas :
    /\ Running
    /\ LET t == client_gravitate(State, c, bw)
       IN /\ t.cl[c].x \in Coords /\ t.cl[c].y \in Coords
          /\ Commit(t)

\* The size hints of a window are read.
DoGetHints ==
  \E c \in heap, ub_w \in UBOutcomes, ub_h \in UBOutcomes :
    /\ Running
    /\ Commit(get_wm_normal_hints(State, c, ub_w, ub_h))

\* The monitor of a client is looked up.
DoMonitor ==
  \E c \in heap :
    /\ Running
    /\ Commit(client_monitor(State, c))

\* main() parses one -app, -geometry, -dock, -vdesk or -fixed option.
ParseOption ==
  /\ pc = "main"
  /\ \/ \E arg \in AppArgs, junk \in {0, 1} :
          /\ Len(applications) < MaxApps
          /\ Commit(set_app(State, arg[1], arg[2], junk))
     \/ \E geom \in GeometryArgs : Commit(set_app_geometry(State, geom))
     \/ Commit(set_app_dock(State))
     \/ \E v \in VdeskInputs : Commit(set_app_vdesk(State, v))
     \/ Commit(set_app_fixed(State))

\* main() opens the display and enters the event loop.
DisplayOpen == pc = "main" /\ Commit([State EXCEPT !.pc = "idle"])

\* The dispatcher manages a new window, applying the -app matches.
DoManage ==
  \E res \in {<<1, 1>>}, type \in TypeInputs, g \in MainGeoms :
    /\ Running
    /\ 1 \notin heap
    /\ Commit(Manage(State, 1, 2, 3, g, res, type))

\* The window type of a client's window changes and is classified again.
DoWindowType ==
  \E c \in heap, type \in TypeInputs :
    /\ Running
    /\ xwin[c].exists
    /\ Commit(get_window_type([State EXCEPT !.xwin[c].window_type = type], c))

\* The user closes a window.
DoRequestClose ==
  \E c \in heap, kill_client \in {0, 1}, protocols \in {"fail", "none", "delete"} :
    /\ Running
    /\ xwin[c].exists \/ protocols = "fail"
    /\ send_wm_delete(State, c, kill_client, protocols).xwin[c].wm_delete <= MaxClose
    /\ Commit(send_wm_delete(State, c, kill_client, protocols))

\* A call of remove_client(c).
CallRemove(s, c) == [s EXCEPT !.rc = c, !.pc = "grab"]

\* The dispatcher flags a client and removes it (a withdrawal).
Withdraw(s, c) == CallRemove([s EXCEPT !.cl[c].remove = 1], c)

DoRemove ==
  \E c \in heap :
    /\ Running
    /\ Commit(remove_client(Withdraw(State, c)))

\* A termination signal: handle_signal only sets wm_exit.
\* A handler that also abandons the removal it interrupts.
handle_signal_Abort(s) == [s EXCEPT !.wm_exit = 1, !.pc = "idle"]

handle_signal(s) == [s EXCEPT !.wm_exit = 1]

Signal == wm_exit = 0 /\ Commit(handle_signal(State))

\* display_close, after the event loop has returned: every client still
\* managed is removed, its remove flag as it is (shutdown).
display_close_next(s) == CallRemove(s, Head(s.clients_stacking_order))

DisplayClose ==
  /\ Idle /\ wm_exit = 1
  /\ clients_stacking_order # <<>>
  /\ Commit(remove_client(display_close_next(State)))

\* The dispatcher reads an UnmapNotify: synthetic while ignore_unmap is
\* positive, a withdrawal otherwise.
handle_unmap_event(s, c) ==
  LET s1 == [s EXCEPT !.unmapq[c] = Tail(@)]
  IN IF s.cl[c].ignore_unmap > 0
     THEN [s1 EXCEPT !.cl[c].ignore_unmap = @ - 1]
     ELSE Withdraw(s1, c)

HandleUnmap ==
  \E c \in heap :
    /\ Running
    /\ unmapq[c] # <<>>
    /\ LET s == handle_unmap_event(State, c)
       IN Commit(IF s.pc = "idle" THEN s ELSE remove_client(s))

\* The same calls, with remove_client executing statement by statement.
StartRemove ==
  \E c \in heap :
    /\ Running
    /\ Commit(Withdraw(State, c))

StartDisplayClose ==
  /\ Idle /\ wm_exit = 1
  /\ clients_stacking_order # <<>>
  /\ Commit(display_close_next(State))

StartHandleUnmap ==
  \E c \in heap :
    /\ Running
    /\ unmapq[c] # <<>>
    /\ Commit(handle_unmap_event(State, c))

RemoveGrab == pc = "grab" /\ Commit(remove_grab(State))
RemoveIgnore == pc = "ignore" /\ Commit(remove_ignore(State))
RemoveState == pc = "state" /\ Commit(remove_state(State))
RemoveGeom == pc = "geom" /\ Commit(remove_geom(State))
RemoveReparent == pc = "reparent" /\ Commit(remove_reparent(State))
RemoveBorder == pc = "border" /\ Commit(remove_border(State))
RemoveSaveSet == pc = "saveset" /\ Commit(remove_saveset(State))
RemoveDestroy == pc = "destroy" /\ Commit(remove_destroy(State))
RemoveUnlink == pc = "unlink" /\ Commit(remove_unlink(State))
RemovePublish == pc = "publish" /\ Commit(remove_publish(State))
RemoveDeselect == pc = "deselect" /\ Commit(remove_deselect(State))
RemoveFree == pc = "free" /\ Commit(remove_free(State))
RemoveUngrab == pc = "ungrab" /\ Commit(remove_ungrab(State))
RemoveSync == pc = "sync" /\ Commit(remove_sync(State))
RemoveClear == pc = "clear" /\ Commit(remove_clear(State))

\* Xlib reads a pending error and calls the handler, whenever it next talks
\* to the server.
DeliverError ==
  /\ xerrors
  /\ Commit([handle_xerror(State) EXCEPT !.xerrors = FALSE])

\* The application unmaps its own window (a withdrawal).
AppUnmap ==
  \E c \in heap :
    /\ Running
    /\ xwin[c].exists /\ xwin[c].parent = "frame"
    /\ \A i \in 1..Len(unmapq[c]) : unmapq[c][i] # "app"
    /\ Len(unmapq[c]) < MaxEvents
    /\ Commit([State EXCEPT !.unmapq[c] = Append(@, "app"),
                 !.input_focus = IF @ = cl[c].window THEN PointerRoot ELSE @])

\* The application destroys its window: its properties go with it.
AppDestroy ==
  \E c \in heap :
    /\ Running
    /\ xwin[c].exists
    /\ Commit(XKillClient(State, c))

RemoveStep ==
  \/ RemoveGrab \/ RemoveIgnore \/ RemoveState \/ RemoveGeom \/ RemoveReparent
  \/ RemoveBorder \/ RemoveSaveSet \/ RemoveDestroy \/ RemoveUnlink
  \/ RemovePublish \/ RemoveDeselect \/ RemoveFree \/ RemoveUngrab
  \/ RemoveSync \/ RemoveClear

Operation ==
  \/ DoRegister \/ DoShow \/ DoHide \/ DoRaise \/ DoLower \/ DoSelect
  \/ DoToVdesk

\* The registry: every operation is one step.
Next ==
  \/ Operation \/ DoRemove \/ HandleUnmap \/ AppUnmap \/ Signal \/ DisplayClose

Spec == Init /\ [][Next]_vars

\* Selection and desktops only: clients are managed, selected while shown,
\* moved between desktops and removed.
SelectNext == DoRegister \/ DoSelect \/ DoToVdesk \/ DoRemove

SpecSelect == Init /\ [][SelectNext]_vars

\* Shutdown: clients are managed, selected and removed statement by
\* statement while a signal may arrive between any two statements; a function
\* that is executing goes on executing.
SignalNext ==
  \/ DoRegister \/ DoSelect \/ StartRemove \/ RemoveStep \/ DeliverError
  \/ AppDestroy \/ Signal \/ StartDisplayClose

SpecSignal == Init /\ [][SignalNext]_vars /\ WF_vars(RemoveStep)

\* The removal transaction statement by statement, with the window able to
\* vanish and errors read at any time.
StepNext ==
  \/ Operation \/ StartRemove \/ StartHandleUnmap
  \/ RemoveStep \/ DeliverError \/ AppDestroy \/ Signal \/ StartDisplayClose

SpecSteps == Init /\ [][StepNext]_vars

\* Applications: the options are parsed, then one client is managed under
\* them and classified again.
AppsNext == ParseOption \/ DisplayOpen \/ DoManage \/ DoWindowType

SpecApps == InitApps /\ [][AppsNext]_vars

\* Closing: clients managed, selected, asked to close or killed, withdrawn.
CloseNext == DoRegister \/ DoSelect \/ DoRequestClose \/ DoRemove

SpecClose == Init /\ [][CloseNext]_vars

\* Stacking: StackClients clients, restacked, selected and withdrawn.
StackNext == DoRaise \/ DoLower \/ DoSelect \/ DoRemove

SpecStack == InitStack /\ [][StackNext]_vars

\* Size hints: one client, its hints read.
HintsNext == DoGetHints

SpecHints == InitHints /\ [][HintsNext]_vars

\* Monitors: one client, its monitor looked up.
MonitorNext == DoMonitor

SpecMonitor == InitMonitor /\ [][MonitorNext]_vars

\* Geometry: one client of any geometry, gravitated and removed.
GeomNext == DoGravitate \/ StartRemove \/ RemoveStep

SpecGeom == InitGeom /\ [][GeomNext]_vars

\* ------------------------------------------------------------------ claims

InAllLists(c) ==
  /\ Count(clients_tab_order, c) = 1
  /\ Count(clients_mapping_order, c) = 1
  /\ Count(clients_stacking_order, c) = 1

InNoList(c) ==
  /\ c \notin Elems(clients_tab_order)
  /\ c \notin Elems(clients_mapping_order)
  /\ c \notin Elems(clients_stacking_order)

C1_Lists ==
  /\ \A c \in heap : InAllLists(c)
  /\ Elems(clients_tab_order) = Elems(clients_mapping_order)
  /\ Elems(clients_mapping_order) = Elems(clients_stacking_order)
  /\ \A c \in Slots \ heap : InNoList(c)

C1_Removed == \A c \in heap : c \notin heap' => InNoList(c)'

\* C1: after any sequence of register, raise, lower, select, move_to_vdesk and
\* remove, every live client appears exactly once in each of the three lists,
\* the three lists hold the same set of clients, and a client whose removal
\* has completed appears in none of them.
C1_ListConsistency == []C1_Lists /\ [][C1_Removed]_vars

\* C1 witness: client 1 has been removed while client 2, registered after it,
\* is live and selected.
C1_Witness ==
  /\ heap = {2}
  /\ clients_tab_order = <<2>> /\ clients_stacking_order = <<2>>
  /\ current = 2

HandlesOf(c) == {cl[c].window, cl[c].parent}

C2_Lookup ==
  /\ \A c \in heap :
       /\ find_client(State, cl[c].window) = c
       /\ find_client(State, cl[c].parent) = c
  /\ \A c \in heap, d \in heap : c # d => HandlesOf(c) \cap HandlesOf(d) = {}

C2_Removed ==
  \A c \in heap :
    c \notin heap' => /\ find_client(State', cl[c].window) = NULL
                      /\ find_client(State', cl[c].parent) = NULL

\* C2: for every live client c, find_client of c's window and of c's frame
\* both return c, no other live client has either handle, and once remove(c)
\* has completed find_client returns no client for either handle.
C2_LookupUniqueness == []C2_Lookup /\ [][C2_Removed]_vars

\* C2 witness: two clients are live, the stacking order has been changed by a
\* raise or lower, and both handles of each client find it.
C2_Witness ==
  /\ heap = {1, 2}
  /\ clients_stacking_order = <<2, 1>>
  /\ find_client(State, cl[1].parent) = 1
  /\ find_client(State, cl[2].window) = 2

\* The order of the statements of the removal transaction.
NextPc(p) ==
  CASE p = "grab" -> "ignore"
    [] p = "ignore" -> "state"
    [] p = "state" -> "geom"
    [] p = "geom" -> "reparent"
    [] p = "reparent" -> "border"
    [] p = "border" -> "saveset"
    [] p = "saveset" -> "destroy"
    [] p = "destroy" -> "unlink"
    [] p = "unlink" -> "publish"
    [] p = "publish" -> "deselect"
    [] p = "deselect" -> "free"
    [] p = "free" -> "ungrab"
    [] p = "ungrab" -> "sync"
    [] p = "sync" -> "clear"
    [] p = "clear" -> "idle"

C3_Steps ==
  (pc # "idle" /\ ~xwin[rc].exists) =>
     /\ pc' = pc \/ pc' = NextPc(pc)
     /\ pc' = "idle" => InNoList(rc)' /\ current' # rc /\ rc \notin heap'

Focused == { c \in heap : xwin[c].net_wm_state = "focused" }

C4_Exclusive ==
  /\ Cardinality(Focused) <= 1
  /\ \A c \in Focused : c = current
  /\ \A c \in heap : c # current => xwin[c].border_pixel = "bg"

C4_Select ==
  \A b \in heap :
    State' = select_client(State, b) =>
      /\ xwin'[b].border_pixel = IF cl[b].vdesk = VDESK_FIXED THEN "fc" ELSE "fg"
      /\ Focused' = {b}
      /\ (current # NULL /\ current # b) => xwin'[current].border_pixel = "bg"

\* C4: after select(A) then select(B), A's frame border is the inactive
\* colour, B's the active colour (the fixed colour if B is fixed) and the one
\* focused flag is on B; in every state at most one client has the focused
\* flag, that client is the selection, and every other live client has the
\* inactive border colour.
C4_SelectionExclusive == []C4_Exclusive /\ [][C4_Select]_vars

\* C4 witness: client 1 was selected, then client 2: 1 carries a republished
\* state without the focused flag and the inactive border, 2 the focused flag
\* and the active border.
C4_Witness ==
  /\ heap = {1, 2} /\ current = 2
  /\ xwin[1].net_wm_state = "plain" /\ xwin[1].border_pixel = "bg"
  /\ xwin[2].net_wm_state = "focused" /\ xwin[2].border_pixel = "fg"

C5_RoundTrip ==
  \A c \in heap, b \in Deltas :
    (pc = "idle" /\ pc' = "idle" /\ cl' = [cl EXCEPT ![c] = Gravitated(cl[c], b)])
      => /\ Gravitated(cl'[c], -b).x = cl[c].x
         /\ Gravitated(cl'[c], -b).y = cl[c].y

\* C5: for every client and every border delta b, client_gravitate(c, b)
\* followed by client_gravitate(c, -b) restores the original x and y.
C5_GravityInverse == [][C5_RoundTrip]_vars

\* The gravity sign table of the claim; a gravity outside the nine is
\* north-west.
SignX(g) ==
  IF g \in {NorthEastGravity, EastGravity, SouthEastGravity} THEN -1
  ELSE IF g \in {NorthGravity, CenterGravity, SouthGravity} THEN 0
  ELSE 1

SignY(g) ==
  IF g \in {SouthWestGravity, SouthGravity, SouthEastGravity} THEN -1
  ELSE IF g \in {WestGravity, CenterGravity, EastGravity} THEN 0
  ELSE 1

\* Neither of the two gravitate calls of remove is suppressed on the axis.
NoSuppressionX(r) ==
  r.width # DisplayW
    \/ (r.x # 0 /\ r.x + SignX(r.win_gravity) * (-r.border) # 0)

NoSuppressionY(r) ==
  r.height # DisplayH
    \/ (r.y # 0 /\ r.y + SignY(r.win_gravity) * (-r.border) # 0)

C6_Restore ==
  LET r == cl[rc]
      B == r.border
      O == r.old_border
  IN /\ (pc = "geom" /\ pc' = "reparent") =>
          /\ NoSuppressionX(r) =>
               cl'[rc].x = r.x - SignX(r.win_gravity) * (B - O) - O
          /\ NoSuppressionY(r) =>
               cl'[rc].y = r.y - SignY(r.win_gravity) * (B - O) - O
          /\ cl'[rc].width = r.width /\ cl'[rc].height = r.height
          /\ cl'[rc].old_border = O
     /\ (pc = "reparent" /\ pc' = "border") =>
          /\ xwin'[rc].parent = "root"
          /\ xwin'[rc].x = r.x /\ xwin'[rc].y = r.y
          /\ cl'[rc] = r
     /\ (pc = "border" /\ pc' = "saveset") =>
          /\ xwin'[rc].border_width = O
          /\ xwin'[rc].x = xwin[rc].x /\ xwin'[rc].y = xwin[rc].y
          /\ xwin'[rc].parent = "root"

C6_Scenario ==
  (pc = "saveset" /\ cl[rc].width = 50) =>
     /\ xwin[rc].parent = "root"
     /\ xwin[rc].x = 10 + 1 * (2 - 1) - 1
     /\ xwin[rc].y = 10 + 1 * (2 - 1) - 1
     /\ cl[rc].width = 50 /\ cl[rc].height = 50
     /\ xwin[rc].border_width = 1

\* C6: with no maximised-axis suppression, remove reparents the window to the
\* root at (x - sx*(B - O) - O, y - sy*(B - O) - O), width and height
\* unchanged, and then sets its border width to O; the south-east client with
\* B = 2, O = 1 and geometry (10,10,50,50) is reparented by the south-east row
\* and gets border width 1.
C6_GeometryRestored == []C6_Scenario /\ [][C6_Restore]_vars

\* C6 witness: the removal of the south-east client of the scenario has
\* reparented the window and restored its border.
C6_Witness ==
  /\ pc = "saveset"
  /\ cl[rc].win_gravity = SouthEastGravity /\ cl[rc].border = 2
  /\ cl[rc].width = 50
  /\ xwin[rc].parent = "root" /\ xwin[rc].x = 10 /\ xwin[rc].border_width = 1

\* A valid desktop id: one of the NVdesks desktops or the fixed
\* pseudo-desktop.
ValidDesktopId(v) == v \in 0..(NVdesks - 1) \/ v = VDESK_FIXED

\* C7: after move_to_vdesk(c, v) with a valid v, c.vdesk = v and c is Normal
\* (frame mapped, Normal published) if v is the screen's current vdesk or the
\* fixed pseudo-desktop, and Iconic (frame unmapped, Iconic published)
\* otherwise.
C7_VdeskVisibility ==
  \A c \in heap, v \in VdeskInputs :
    (pc = "idle" /\ ValidDesktopId(v)) =>
      LET t == client_to_vdesk(State, c, v)
      IN /\ t.cl[c].vdesk = v
         /\ IF v = s_vdesk \/ v = VDESK_FIXED
            THEN t.xwin[c].frame_mapped /\ t.xwin[c].wm_state = "Normal"
            ELSE ~t.xwin[c].frame_mapped /\ t.xwin[c].wm_state = "Iconic"

\* C7 witness: one client has been moved to the fixed pseudo-desktop and is
\* Normal, the other to a desktop that is not the current one and is Iconic,
\* with the unmap of its frame consumed by the dispatcher.
C7_Witness ==
  /\ heap = {1, 2}
  /\ cl[1].vdesk = VDESK_FIXED /\ xwin[1].frame_mapped
  /\ xwin[1].wm_state = "Normal" /\ xwin[1].net_wm_desktop = <<VDESK_FIXED>>
  /\ cl[2].vdesk # s_vdesk /\ cl[2].vdesk # VDESK_FIXED
  /\ ~xwin[2].frame_mapped /\ xwin[2].wm_state = "Iconic"
  /\ current = 2

\* C8: move_to_vdesk(c, v) with v not a valid desktop id changes nothing: the
\* client's vdesk, mapped state, published state, ignore-unmap counter and
\* desktop annotation, the selection, the input focus, every border colour,
\* and no error is raised.
C8_InvalidVdeskNoop ==
  \A c \in heap, v \in VdeskInputs :
    (pc = "idle" /\ ~ValidDesktopId(v)) => client_to_vdesk(State, c, v) = State

\* C8 witness: a selected client on the current desktop, for which the call
\* with the first id past the last desktop would otherwise hide it.
C8_Witness ==
  \E c \in heap :
    /\ current = c /\ xwin[c].frame_mapped /\ cl[c].vdesk = s_vdesk
    /\ cl[c].ignore_unmap = 0
    /\ ~ValidDesktopId(NVdesks)
    /\ client_to_vdesk(State, c, NVdesks) = State

\* C9: each client's ignore-unmap counter equals the number of unmap
\* notifications generated by the manager's own requests for that client and
\* not yet consumed by the dispatcher.
C9_CounterMatchesPending ==
  \A c \in heap : cl[c].ignore_unmap = Count(unmapq[c], "wm")

C10_Confined ==
  /\ pc \in {"idle", "grab", "ignore"} => ignore_xerror = 0
  /\ pc = "idle" =>
       \A c \in heap :
         /\ client_hide(State, c).ignore_xerror = 0
         /\ client_show(State, c).ignore_xerror = 0
         /\ client_raise(State, c).ignore_xerror = 0
         /\ client_lower(State, c).ignore_xerror = 0
         /\ select_client(State, c).ignore_xerror = 0
         /\ select_client(State, NULL).ignore_xerror = 0
         /\ \A v \in VdeskInputs : client_to_vdesk(State, c, v).ignore_xerror = 0
         /\ \A k \in {0, 1}, p \in {"fail", "none", "delete"} :
              send_wm_delete(State, c, k, p).ignore_xerror = 0

C10_SetOnlyInRemove ==
  ignore_xerror' # ignore_xerror =>
     \/ pc = "ignore" /\ ignore_xerror' = 1
     \/ pc = "clear" /\ ignore_xerror' = 0 /\ pc' = "idle"

\* C10: the ignore-errors flag is set only inside remove, it is clear in every
\* state in which no remove is executing, in particular after every return
\* from remove in both modes, and hide, show, raise, lower, select,
\* move_to_vdesk and request_close neither set it nor run with it set.
C10_SuppressionConfined == []C10_Confined /\ [][C10_SetOnlyInRemove]_vars

\* C10 witness: remove has returned in shutdown mode (the published client
\* list still names the window) after a withdrawal had returned too, and the
\* flag is clear.
C10_Witness ==
  /\ pc = "idle" /\ wm_exit = 1
  /\ heap = {}
  /\ Len(net_client_list) = 1
  /\ ignore_xerror = 0

\* The statements of remove_client from the first request to free(c): steps
\* 1-11 of the removal transaction.
TeardownPcs ==
  {"state", "geom", "reparent", "border", "saveset", "destroy", "unlink",
   "publish", "deselect", "free"}

\* C11 as claimed: the grab is held during steps 1-9 and released only after
\* step 12, so it is held in every state of the transaction after
\* XGrabServer.
C11_GrabUntilStep12 == pc \notin {"idle", "grab"} => grabbed

C11_Held ==
  /\ pc \in TeardownPcs \cup {"ignore", "ungrab"} => grabbed
  /\ pc \in {"idle", "grab", "sync", "clear"} => ~grabbed
  /\ (pc \in {"sync", "clear"}) =>
       /\ rc \notin heap /\ InNoList(rc) /\ current # rc
       /\ ignore_xerror = 1

C11_Release ==
  /\ (grabbed /\ ~grabbed') => (pc = "ungrab" /\ pc' = "sync" /\ ignore_xerror' = 1)
  /\ (~grabbed /\ grabbed') => (pc = "grab" /\ pc' = "ignore")

\* C11 amended: the grab is taken before error suppression is switched on and
\* is held through steps 1-11, so every request of the transaction is issued
\* under it; it is released after the record is freed and before step 12
\* (XUngrabServer precedes XSync and the clearing of ignore_xerror), and
\* outside the grab the client is either untouched or fully torn down.
C11_GrabHeldDuringTeardown == []C11_Held /\ [][C11_Release]_vars

\* C11 witness: remove has released the grab and has not yet flushed nor
\* re-enabled error propagation.
C11_Witness ==
  /\ pc = "sync" /\ ~grabbed
  /\ ignore_xerror = 1
  /\ rc \notin heap

\* A step of remove_client before its return, in shutdown or withdraw mode.
\* (free(c) releases the record, and the flag with it.)
ShutdownStep == pc \in TeardownPcs /\ cl[rc].remove = 0

WithdrawStep == pc \in TeardownPcs /\ cl[rc].remove # 0

C12_WithdrawPublishes ==
  (pc = "state" /\ pc' = "geom" /\ cl[rc].remove # 0 /\ xwin[rc].exists) =>
     /\ xwin'[rc].wm_state = "Withdrawn"
     /\ xwin'[rc].net_wm_desktop = <<>>
     /\ xwin'[rc].net_wm_state = "none"
     /\ xwin'[rc].allowed_actions = FALSE

C12_ShutdownStrips ==
  (pc = "state" /\ pc' = "geom" /\ cl[rc].remove = 0 /\ xwin[rc].exists) =>
     xwin'[rc].allowed_actions = FALSE

C12_Untouched ==
  ShutdownStep =>
     /\ xwin'[rc].wm_state = xwin[rc].wm_state
     /\ xwin'[rc].net_wm_desktop = xwin[rc].net_wm_desktop
     /\ xwin'[rc].net_wm_state = xwin[rc].net_wm_state

C12_UntouchedButFocus ==
  ShutdownStep =>
     /\ xwin'[rc].wm_state = xwin[rc].wm_state
     /\ xwin'[rc].net_wm_desktop = xwin[rc].net_wm_desktop
     /\ IF pc = "deselect" /\ pc' = "free" /\ current = rc /\ xwin[rc].exists
        THEN xwin'[rc].net_wm_state = "plain"
        ELSE xwin'[rc].net_wm_state = xwin[rc].net_wm_state

C12_WithdrawRepublishes ==
  (WithdrawStep /\ pc # "state") =>
     /\ xwin'[rc].wm_state = xwin[rc].wm_state
     /\ xwin'[rc].net_wm_desktop = xwin[rc].net_wm_desktop
     /\ IF pc = "deselect" /\ pc' = "free" /\ current = rc /\ xwin[rc].exists
        THEN xwin'[rc].net_wm_state = "plain"
        ELSE xwin'[rc].net_wm_state = xwin[rc].net_wm_state

Without(list, c) == SelectSeq(list, LAMBDA d : d # c)

RaiseResult(c) ==
  LET t == client_raise(State, c)
  IN /\ t.clients_stacking_order = Without(clients_stacking_order, c) \o <<c>>
     /\ t.net_client_list_stacking =
          [i \in 1..Len(t.clients_stacking_order) |->
             cl[t.clients_stacking_order[i]].window]

LowerResult(c) ==
  LET t == client_lower(State, c)
  IN /\ t.clients_stacking_order = <<c>> \o Without(clients_stacking_order, c)
     /\ t.net_client_list_stacking =
          [i \in 1..Len(t.clients_stacking_order) |->
             cl[t.clients_stacking_order[i]].window]

\* C13: from every state, raise(c) moves c to the tail and lower(c) moves c to
\* the head of the stacking order, the other clients keeping their order, and
\* the stacking list the call publishes is the stacking order as it is after
\* the move.
C13_RaiseLower ==
  pc = "idle" => \A c \in heap : RaiseResult(c) /\ LowerResult(c)

\* C13 witness: with three clients in mapping order 1, 2, 3, raises and
\* lowers have brought the stacking order and the published list to 3, 1, 2.
C13_Witness ==
  /\ clients_mapping_order = <<1, 2, 3>>
  /\ clients_stacking_order = <<3, 1, 2>>
  /\ net_client_list_stacking = <<cl[3].window, cl[1].window, cl[2].window>>

\* The sum a + b is an int.
Representable(a, b) == IF b > 0 THEN a <= IntMax - b ELSE a >= IntMin - b

\* Rules 1 to 6 of the size hint normalisation, read off the raw hints h:
\* what each field of the client has to be.
RuleMin(h, given) == IF HasFlag(h.flags, PMinSize) THEN given ELSE 0
RuleMax(h, given) == IF HasFlag(h.flags, PMaxSize) THEN given ELSE 0
RuleBase(h, given, min1) == IF HasFlag(h.flags, PBaseSize) THEN given ELSE min1
RuleInc(h, given) ==
  IF HasFlag(h.flags, PResizeInc) /\ given # 0 THEN given ELSE 1
RuleGravity(h) ==
  IF HasFlag(h.flags, PWinGravity) THEN h.win_gravity ELSE NorthWestGravity

C14_Normalised(h, r) ==
  LET min1_w == RuleMin(h, h.min_width)
      min1_h == RuleMin(h, h.min_height)
      base_w == RuleBase(h, h.base_width, min1_w)
      base_h == RuleBase(h, h.base_height, min1_h)
      inc_w == RuleInc(h, h.width_inc)
      inc_h == RuleInc(h, h.height_inc)
  IN /\ r.max_width = RuleMax(h, h.max_width)
     /\ r.max_height = RuleMax(h, h.max_height)
     /\ r.base_width = base_w
     /\ r.base_height = base_h
     /\ r.width_inc = inc_w
     /\ r.height_inc = inc_h
     /\ HasFlag(h.flags, PMinSize) =>
          r.min_width = min1_w /\ r.min_height = min1_h
     /\ ~HasFlag(h.flags, PMinSize) /\ Representable(base_w, inc_w) =>
          r.min_width = base_w + inc_w
     /\ ~HasFlag(h.flags, PMinSize) /\ Representable(base_h, inc_h) =>
          r.min_height = base_h + inc_h
     /\ r.win_gravity_hint = RuleGravity(h)
     /\ r.win_gravity = RuleGravity(h)

\* With no minimum, maximum, base or increment hint: increment (1,1), base
\* (0,0), minimum (1,1), maximum (0,0).
C14_Defaults(h, r) ==
  (\A b \in {PMinSize, PMaxSize, PBaseSize, PResizeInc} : ~HasFlag(h.flags, b))
    => /\ r.width_inc = 1 /\ r.height_inc = 1
       /\ r.base_width = 0 /\ r.base_height = 0
       /\ r.min_width = 1 /\ r.min_height = 1
       /\ r.max_width = 0 /\ r.max_height = 0

\* C14: for every combination of present and absent raw size hints the
\* normaliser leaves the client with exactly what rules 1 to 6 give, applied
\* in order (the recomputed minimum being the sum wherever that is an int);
\* with no minimum, maximum, base or increment hint the result is increment
\* (1,1), base (0,0), minimum (1,1), maximum (0,0); the raw flag bitmask is
\* returned unchanged; nothing but the size fields and the gravities of the
\* client is written.
C14_HintNormalisation ==
  \A c \in heap, ub_w \in UBOutcomes, ub_h \in UBOutcomes :
    xwin[c].exists =>
      LET h == xwin[c].hints
          t == get_wm_normal_hints(State, c, ub_w, ub_h)
          r == t.cl[c]
      IN /\ C14_Normalised(h, r)
         /\ C14_Defaults(h, r)
         /\ t.ret = h.flags
         /\ [t EXCEPT !.cl[c] = cl[c], !.ret = ret] = State
         /\ \A f \in {"window", "parent", "vdesk", "ignore_unmap", "remove",
                       "x", "y", "width", "height", "border", "old_border"} :
              r[f] = cl[c][f]

\* The hints of a window with a base size of 1, a zero increment and a
\* gravity, but no minimum or maximum, have been read.
C14_Witness ==
  /\ 1 \in heap
  /\ xwin[1].hints.flags = PBaseSize + PResizeInc + PWinGravity
  /\ xwin[1].hints.base_width = 1 /\ xwin[1].hints.width_inc = 0
  /\ xwin[1].hints.win_gravity = SouthEastGravity
  /\ ret = PBaseSize + PResizeInc + PWinGravity
  /\ cl[1].base_width = 1 /\ cl[1].width_inc = 1 /\ cl[1].min_width = 2
  /\ cl[1].max_width = 0
  /\ cl[1].win_gravity = SouthEastGravity
  /\ cl[1].win_gravity_hint = SouthEastGravity

\* C19: after the normalisation, whatever the raw hints hold and whether or
\* not the increment hint is present, width_inc >= 1 and height_inc >= 1.
C19_IncrementsPositive ==
  \A c \in heap, ub_w \in UBOutcomes, ub_h \in UBOutcomes :
    LET r == get_wm_normal_hints(State, c, ub_w, ub_h).cl[c]
    IN r.width_inc >= 1 /\ r.height_inc >= 1

\* C20: whenever the raw hints supply no explicit minimum, after the
\* normalisation min_width >= width_inc and min_height >= height_inc, for
\* every value of the base and increment hints.
C20_MinAtLeastIncrement ==
  \A c \in heap, ub_w \in UBOutcomes, ub_h \in UBOutcomes :
    (xwin[c].exists /\ ~HasFlag(xwin[c].hints.flags, PMinSize)) =>
      LET r == get_wm_normal_hints(State, c, ub_w, ub_h).cl[c]
      IN r.min_width >= r.width_inc /\ r.min_height >= r.height_inc

\* The centre point of client c and the monitors (1-based) that hold it.
CentreX(c) == cl[c].x + cl[c].width \div 2
CentreY(c) == cl[c].y + cl[c].height \div 2
Holding(c) ==
  { i \in 1..Len(monitors) :
      /\ monitors[i].x <= CentreX(c) /\ CentreX(c) < monitors[i].x + monitors[i].width
      /\ monitors[i].y <= CentreY(c) /\ CentreY(c) < monitors[i].y + monitors[i].height }

\* C15: client_monitor returns the first monitor of the screen's list whose
\* rectangle holds the client's centre (x + width/2, y + height/2), also when
\* several hold it, and monitor 0 when none does; with monitors of width 100
\* at x = 0, 100, 200 a client centred at x = 150 gets the monitor at x = 100
\* and one centred at x = 500 gets monitor 0; the call writes nothing of the
\* client or of anything else.
C15_FirstMonitor ==
  \A c \in heap :
    LET t == client_monitor(State, c)
    IN /\ Holding(c) # {} =>
            /\ t.ret + 1 \in Holding(c)
            /\ \A i \in Holding(c) : t.ret + 1 <= i
       /\ Holding(c) = {} => t.ret = 0
       /\ (monitors = ExampleMonitors /\ CentreX(c) = 150 /\ CentreY(c) = 50)
            => monitors[t.ret + 1].x = 100
       /\ (monitors = ExampleMonitors /\ CentreX(c) = 500) => t.ret = 0
       /\ [t EXCEPT !.ret = ret] = State

\* The monitor of a client whose centre is held by the second and the third
\* monitor but not by the first has been looked up.
C15_Witness ==
  /\ 1 \in heap
  /\ Holding(1) = {2, 3}
  /\ ret = 1

\* What the window manager itself holds: the registry, the Selection, the
\* client records and its own flags.
ManagerState(s) ==
  << s.clients_tab_order, s.clients_mapping_order, s.clients_stacking_order,
     s.current, s.heap, s.cl, s.ignore_xerror, s.wm_exit, s.s_vdesk, s.pc, s.rc >>

\* C16: request_close(c, force) issues exactly one of two actions: it
\* delivers one graceful-close message and does not kill exactly when force
\* is false and the protocol list could be read and holds the graceful-close
\* protocol; in every other case it delivers no message and terminates the
\* client's connection.  It changes no registry, Selection or client state
\* and returns without waiting.
C16_RequestClose ==
  \A c \in heap, force \in {0, 1}, protocols \in {"fail", "none", "delete"} :
    xwin[c].exists =>
      LET t == send_wm_delete(State, c, force, protocols)
          graceful == force = 0 /\ protocols = "delete"
      IN /\ graceful =>
              /\ t.xwin[c].wm_delete = xwin[c].wm_delete + 1
              /\ t.xwin[c].exists
              /\ [t EXCEPT !.xwin[c].wm_delete = xwin[c].wm_delete] = State
         /\ ~graceful =>
              /\ t.xwin[c].wm_delete = xwin[c].wm_delete
              /\ ~t.xwin[c].exists
         /\ ManagerState(t) = ManagerState(State)
         /\ \A d \in heap \ {c} : t.xwin[d] = xwin[d]

\* One client has been asked to close and lives on, another has been killed:
\* both are still managed.
C16_Witness ==
  /\ heap = {1, 2} /\ pc = "idle"
  /\ xwin[1].exists /\ xwin[1].wm_delete = 1
  /\ ~xwin[2].exists /\ xwin[2].wm_delete = 0
  /\ current = 1

\* The registry, the vdesk of every client and the Selection.
Membership(s) ==
  << s.clients_tab_order, s.clients_mapping_order, s.clients_stacking_order,
     s.heap, [d \in Slots |-> s.cl[d].vdesk], s.current >>

\* C17: hide(c) increments c's ignore-unmap counter by exactly one, so that
\* the unmap it issues is already counted when it is notified, and afterwards
\* the frame is unmapped and Iconic is published; show(c) leaves the frame
\* mapped with Normal published and the counter as it was.  Neither changes
\* list membership, vdesk or the Selection, nor any other field of a client.
C17_HideShow ==
  \A c \in heap :
    LET h == client_hide(State, c)
        w == client_show(State, c)
    IN /\ h.cl[c].ignore_unmap = cl[c].ignore_unmap + 1
       /\ Len(h.unmapq[c]) <= Len(unmapq[c]) + 1
       /\ Len(h.unmapq[c]) > Len(unmapq[c]) => h.cl[c].ignore_unmap >= 1
       /\ ~h.xwin[c].frame_mapped
       /\ h.xwin[c].wm_state = "Iconic"
       /\ [h.cl EXCEPT ![c].ignore_unmap = cl[c].ignore_unmap] = cl
       /\ Membership(h) = Membership(State)
       /\ w.xwin[c].frame_mapped
       /\ w.xwin[c].wm_state = "Normal"
       /\ w.cl = cl
       /\ w.unmapq = unmapq
       /\ Membership(w) = Membership(State)

\* The selected client has been hidden and stays selected; the other one has
\* been hidden and shown again.
C17_Witness ==
  /\ heap = {1, 2} /\ current = 1
  /\ cl[1].ignore_unmap = 1 /\ ~xwin[1].frame_mapped
  /\ xwin[1].wm_state = "Iconic" /\ unmapq[1] = <<"wm">>
  /\ cl[2].ignore_unmap = 1 /\ xwin[2].frame_mapped
  /\ xwin[2].wm_state = "Normal"

\* The gravity table of the spec: the offset <<dx, dy>> for a delta d.
RECURSIVE GravityTable(_, _)
GravityTable(g, d) ==
  CASE g = NorthWestGravity -> <<d, d>>
    [] g = NorthGravity -> <<0, d>>
    [] g = NorthEastGravity -> <<-d, d>>
    [] g = WestGravity -> <<d, 0>>
    [] g = CenterGravity -> <<0, 0>>
    [] g = EastGravity -> <<-d, 0>>
    [] g = SouthWestGravity -> <<d, -d>>
    [] g = SouthGravity -> <<0, -d>>
    [] g = SouthEastGravity -> <<-d, -d>>
    [] OTHER -> GravityTable(NorthWestGravity, d)

\* C18: on an axis that is not suppressed as maximised, client_gravitate(c, d)
\* changes the position by exactly the offset of the gravity table, a gravity
\* outside the nine behaving as north-west; width, height, the border fields
\* and everything else are never changed.
C18_GravityTable ==
  \A c \in heap, d \in Deltas :
    LET r == cl[c]
        t == client_gravitate(State, c, d)
        q == t.cl[c]
        off == GravityTable(r.win_gravity, d)
    IN /\ ~(r.x = 0 /\ r.width = DisplayW) => q.x = r.x + off[1]
       /\ ~(r.y = 0 /\ r.height = DisplayH) => q.y = r.y + off[2]
       /\ q.width = r.width /\ q.height = r.height
       /\ q.border = r.border /\ q.old_border = r.old_border
       /\ [q EXCEPT !.x = r.x, !.y = r.y] = r
       /\ [t EXCEPT !.cl[c] = cl[c]] = State

\* A client of a gravity outside the nine, not maximised, has been moved
\* left and up off the input positions by client_gravitate(c, -1) in its
\* removal.
C18_Witness ==
  /\ pc = "reparent" /\ rc \in heap
  /\ cl[rc].win_gravity = StaticGravity
  /\ cl[rc].width # DisplayW /\ cl[rc].height # DisplayH
  /\ cl[rc].border = 1 /\ cl[rc].old_border = 0
  /\ cl[rc].x = -MaxCoord - 1 /\ cl[rc].y = -MaxCoord - 1

\* Client c is matched by an -app match carrying -dock.
DockMatch(c) ==
  \E i \in 1..Len(applications) :
    Matches(applications[i], xwin[c].res) /\ applications[i].is_dock = 1

\* C21: a client matched by an -app match carrying -dock is a dock even if its
\* window type lacks the dock bit: its is_dock flag stays set through every
\* later classification of its window type.
C21_DockMatchKept ==
  \A c \in heap : DockMatch(c) => cl[c].is_dock = 1

\* What a -app, -geometry, -dock, -vdesk or -fixed callback leaves alone:
\* everything but the first record of the list of matches.
OnlyHead(t) ==
  /\ [t EXCEPT !.applications = applications] = State
  /\ Len(t.applications) = Len(applications)
  /\ Tail(t.applications) = Tail(applications)
  /\ t.applications[1].res_name = applications[1].res_name
  /\ t.applications[1].res_class = applications[1].res_class

\* C22: each -geometry, -dock, -vdesk or -fixed option modifies only the
\* record of the most recent -app, the first of the list, and leaves every
\* earlier record unchanged; with no -app before it, it changes nothing; -app
\* puts a record with no geometry mask, is_dock = 0 and no default vdesk in
\* front of the unchanged earlier records.
C22_OptionsHitLastApp ==
  /\ \A arg \in AppArgs, junk \in {0, 1} :
       LET t == set_app(State, arg[1], arg[2], junk)
       IN /\ Tail(t.applications) = applications
          /\ t.applications[1].geometry_mask = 0
          /\ t.applications[1].is_dock = 0
          /\ t.applications[1].vdesk = VDESK_NONE
          /\ t.applications[1].res_name = arg[1]
          /\ t.applications[1].res_class = arg[2]
          /\ [t EXCEPT !.applications = applications] = State
  /\ applications = <<>> =>
       /\ \A geom \in GeometryArgs : set_app_geometry(State, geom) = State
       /\ set_app_dock(State) = State
       /\ \A v \in VdeskInputs : set_app_vdesk(State, v) = State
       /\ set_app_fixed(State) = State
  /\ applications # <<>> =>
       /\ \A geom \in GeometryArgs :
            LET t == set_app_geometry(State, geom)
            IN /\ OnlyHead(t)
               /\ t.applications[1].geometry_mask = geom.mask
               /\ t.applications[1].is_dock = applications[1].is_dock
               /\ t.applications[1].vdesk = applications[1].vdesk
       /\ LET t == set_app_dock(State)
          IN /\ OnlyHead(t)
             /\ t.applications[1] = [applications[1] EXCEPT !.is_dock = 1]
       /\ \A v \in VdeskInputs :
            LET t == set_app_vdesk(State, v)
            IN /\ OnlyHead(t)
               /\ t.applications[1] =
                    [applications[1] EXCEPT
                       !.vdesk = IF ValidDesktopId(v) THEN v ELSE @]
       /\ LET t == set_app_fixed(State)
          IN /\ OnlyHead(t)
             /\ t.applications[1] = [applications[1] EXCEPT !.vdesk = VDESK_FIXED]

\* -app, -dock, then a second -app followed by -geometry and -fixed: the
\* first match has kept its dock flag and nothing else.
C22_Witness ==
  /\ Len(applications) = 2
  /\ applications[2].is_dock = 1 /\ applications[2].vdesk = VDESK_NONE
  /\ applications[2].geometry_mask = 0
  /\ applications[1].is_dock = 0 /\ applications[1].vdesk = VDESK_FIXED
  /\ applications[1].geometry_mask = 15 /\ applications[1].width = 2

\* No error of the removal is waiting once XSync has run or outside the
\* transaction, and none has been handled with suppression off.
C23_Drained ==
  /\ ~xerr_surfaced
  /\ pc \in {"clear", "idle"} => ~xerrors

\* The flag is cleared only when no error of the removal is waiting.
C23_ClearAfterDrain ==
  (ignore_xerror = 1 /\ ignore_xerror' = 0) => (~xerrors /\ pc = "clear")

\* C23: within remove the synchronous flush happens while error suppression
\* is still active: every error of a request of the transaction is received
\* and discarded before the ignore-errors flag is cleared, so none is ever
\* handled with suppression off, during or after remove.
C23_FlushWhileSuppressed == []C23_Drained /\ [][C23_ClearAfterDrain]_vars

\* An error of the removal of a vanished window is still waiting when XSync
\* is about to run, suppression being on.
C23_Witness ==
  /\ pc = "sync" /\ xerrors /\ ignore_xerror = 1
  /\ ~xwin[rc].exists /\ ~xerr_surfaced

\* The republication statement of remove is reached with the client out of
\* all three lists.
C24_UnlinkedFirst == pc \in {"publish", "deselect"} => InNoList(rc)

\* The republication statement: in withdraw mode both published lists become
\* the windows of the registry's mapping and stacking order, which no longer
\* hold the removed client; in shutdown mode neither changes.
C24_Publish ==
  (pc = "publish" /\ pc' = "deselect") =>
     IF cl[rc].remove # 0
     THEN /\ net_client_list' = WindowsOf(State, clients_mapping_order)
          /\ net_client_list_stacking' = WindowsOf(State, clients_stacking_order)
          /\ \A i \in 1..Len(net_client_list') :
               net_client_list'[i] # cl[rc].window
          /\ \A i \in 1..Len(net_client_list_stacking') :
               net_client_list_stacking'[i] # cl[rc].window
     ELSE /\ net_client_list' = net_client_list
          /\ net_client_list_stacking' = net_client_list_stacking

\* No other statement of remove publishes a list.
C24_NoOtherPublication ==
  (pc \notin {"idle", "publish"} /\ pc' # "idle" /\ rc' = rc) =>
     /\ net_client_list' = net_client_list
     /\ net_client_list_stacking' = net_client_list_stacking

\* C24: remove unlinks the client from all three lists before it
\* republishes: in withdraw mode the client list and the stacking list it
\* publishes are the registry's mapping and stacking order without the
\* removed client; in shutdown mode it publishes neither, so the published
\* lists stay as they were.
C24_RepublishAfterUnlink ==
  []C24_UnlinkedFirst /\ [][C24_Publish /\ C24_NoOtherPublication]_vars

\* Client 1 of two is being withdrawn and the lists have just been
\* republished without its window.
C24_Witness ==
  /\ pc = "deselect" /\ rc = 1 /\ cl[1].remove = 1
  /\ heap = {1, 2}
  /\ net_client_list = <<cl[2].window>>
  /\ net_client_list_stacking = <<cl[2].window>>
  /\ clients_mapping_order = <<2>>

\* The Selection, the lists and the lookups refer to live records only, and
\* the Selection is in all three lists; remove alone sees its client selected
\* and unlinked, between its unlinking and its deselecting statements.
C25_Live ==
  /\ current = NULL \/ current \in heap
  /\ Elems(clients_tab_order) \subseteq heap
  /\ Elems(clients_mapping_order) \subseteq heap
  /\ Elems(clients_stacking_order) \subseteq heap
  /\ \A w \in Handles : find_client(State, w) \in heap \cup {NULL}
  /\ (current # NULL /\ ~(current = rc /\ pc \in {"publish", "deselect"}))
       => InAllLists(current)
  /\ pc \in {"free", "ungrab", "sync", "clear"} => current # rc

\* The deselecting statement clears a Selection that is the removed client
\* and republishes its focus state; the releasing statement comes after it.
C25_DeselectThenFree ==
  /\ (pc = "deselect" /\ pc' = "free" /\ current = rc) =>
        /\ current' = NULL
        /\ xwin'[rc].net_wm_state # "focused"
        /\ s_active' # cl[rc].window
        /\ rc \in heap'
  /\ (pc = "free" /\ pc' = "ungrab") =>
        /\ current # rc /\ rc \notin heap' /\ current' = current

\* C25: between operations the Selection is none or a live client present in
\* all three lists; remove of the selected client clears the Selection and
\* republishes its focus state before the record is released; no list,
\* lookup result or Selection ever refers to a released record.
C25_SelectionLive == []C25_Live /\ [][C25_DeselectThenFree]_vars

\* The selected client of two is being withdrawn: the Selection has been
\* cleared and its focus state, deleted by the withdrawal, republished; the
\* record is not yet released.
C25_Witness ==
  /\ pc = "free" /\ rc = 1 /\ rc \in heap /\ heap = {1, 2}
  /\ cl[1].remove = 1
  /\ current = NULL /\ s_active = None
  /\ xwin[1].net_wm_state = "plain"

\* What remove of c leaves of state s in t when c is not the Selection.
C26_Frame(t, c) ==
  /\ t.current = current
  /\ t.input_focus = input_focus
  /\ t.s_active = s_active
  /\ \A d \in Slots \ {c} : t.cl[d] = cl[d] /\ t.xwin[d] = xwin[d]
  /\ t.clients_tab_order = Without(clients_tab_order, c)
  /\ t.clients_mapping_order = Without(clients_mapping_order, c)
  /\ t.clients_stacking_order = Without(clients_stacking_order, c)
  /\ t.heap = heap \ {c}

\* C26: remove(c) of a client that is not the Selection, in withdraw and in
\* shutdown mode, leaves the Selection, the input focus and every other
\* client's fields unchanged, and in each of the three lists the remaining
\* clients keep their relative order.
C26_RemoveUnselected ==
  \A c \in heap :
    (pc = "idle" /\ c # current) =>
      /\ C26_Frame(remove_client(Withdraw(State, c)), c)
      /\ C26_Frame(remove_client(CallRemove(State, c)), c)

\* Client 2 of three has been removed while the others were restacked and
\* client 1 is the Selection: the lists hold 1 and 3 in their old orders.
C26_Witness ==
  /\ heap = {1, 3} /\ current = 1 /\ input_focus = cl[1].window
  /\ clients_tab_order = <<1, 3>>
  /\ clients_mapping_order = <<1, 3>>
  /\ clients_stacking_order = <<3, 1>>
  /\ xwin[1].net_wm_state = "focused"

\* The selected client is being withdrawn.
WithdrawingSelection == pc # "idle" /\ rc = current /\ cl[rc].remove # 0

\* Once the withdrawal of the selected client has published Withdrawn, and so
\* before and after its window is reparented, the input focus is on the
\* neutral target.
C27_Redirected ==
  /\ (WithdrawingSelection /\ pc \notin {"grab", "ignore", "state"})
       => input_focus = PointerRoot
  /\ (WithdrawingSelection
        /\ (xwin[rc].wm_state = "Withdrawn" \/ xwin[rc].parent = "root"))
       => input_focus # cl[rc].window

\* Within remove only the first statement of the withdrawal of the selected
\* client requests a focus, the neutral target; on return the focus is not
\* on the window of a withdrawn selection.
C27_FocusRequests ==
  /\ (pc # "idle" /\ pc' # "idle") =>
        \/ input_focus' = input_focus
        \/ /\ pc = "state" /\ pc' = "geom" /\ WithdrawingSelection
           /\ input_focus' = PointerRoot
  /\ (pc = "state" /\ pc' = "geom" /\ WithdrawingSelection) =>
        /\ input_focus' = PointerRoot
        /\ xwin'[rc].parent = xwin[rc].parent
  /\ (pc = "clear" /\ pc' = "idle") => input_focus' = input_focus

\* C27: when remove in withdraw mode is applied to the selected client, the
\* input focus is redirected to the neutral target no later than Withdrawn is
\* published and before the window is reparented, so that afterwards the
\* focus is not on the removed window; for a client that is not selected no
\* focus request is issued.
C27_FocusRedirectedFirst == []C27_Redirected /\ [][C27_FocusRequests]_vars

\* The selected client is being withdrawn: Withdrawn is published, the focus
\* is on the neutral target and the window is still inside its frame.
C27_Witness ==
  /\ pc = "reparent" /\ rc = current /\ cl[rc].remove = 1
  /\ xwin[rc].exists /\ xwin[rc].wm_state = "Withdrawn"
  /\ xwin[rc].parent = "frame"
  /\ input_focus = PointerRoot

\* What raise and lower may change: the stacking order and its publication.
StackingFields == {"clients_stacking_order", "net_client_list_stacking"}

\* State t differs from the current state in the stacking order at most.
OnlyStacking(t) ==
  /\ \A f \in (DOMAIN State) \ StackingFields : t[f] = State[f]
  /\ t.clients_tab_order = clients_tab_order
  /\ t.clients_mapping_order = clients_mapping_order
  /\ t.current = current
  /\ \A d \in Slots :
       /\ t.cl[d].vdesk = cl[d].vdesk
       /\ t.cl[d].ignore_unmap = cl[d].ignore_unmap
       /\ <<t.cl[d].x, t.cl[d].y, t.cl[d].width, t.cl[d].height>>
            = <<cl[d].x, cl[d].y, cl[d].width, cl[d].height>>

\* A step that reorders the stacking order of the same clients.
C28_Restacked ==
  (heap' = heap /\ clients_stacking_order' # clients_stacking_order) =>
    /\ clients_tab_order' = clients_tab_order
    /\ clients_mapping_order' = clients_mapping_order
    /\ current' = current
    /\ cl' = cl

\* C28: raise and lower change the stacking order only: the tab order, the
\* mapping order, the selection and every client's vdesk, geometry and
\* ignore-unmap counter are as they were.
C28_OnlyStackingChanges ==
  /\ [](pc = "idle" =>
         \A c \in heap : /\ OnlyStacking(client_raise(State, c))
                         /\ OnlyStacking(client_lower(State, c)))
  /\ [][C28_Restacked]_vars

\* Client 2 is selected and was lowered to the back of three clients, tab and
\* mapping order still as created.
C28_Witness ==
  /\ current = 2
  /\ clients_stacking_order = <<2, 1, 3>>
  /\ clients_tab_order = <<1, 2, 3>>
  /\ clients_mapping_order = <<1, 2, 3>>
  /\ net_client_list_stacking = <<cl[2].window, cl[1].window, cl[3].window>>

\* The client record fills the display along the axis and sits at its origin.
MaximisedX(r) == r.x = 0 /\ r.width = DisplayW
MaximisedY(r) == r.y = 0 /\ r.height = DisplayH

\* One call: each axis gets its offset unless the client is maximised along
\* that axis when the call is made, whatever the other axis.
C29_EdgeRule ==
  \A c \in heap, d \in Deltas :
    LET r == cl[c]
        q == client_gravitate(State, c, d).cl[c]
    IN /\ q.x = IF MaximisedX(r) THEN r.x
                ELSE r.x + GravityDx(r.win_gravity, d)
       /\ q.y = IF MaximisedY(r) THEN r.y
                ELSE r.y + GravityDy(r.win_gravity, d)
       /\ MaximisedX(r) => MaximisedX(q)
       /\ MaximisedY(r) => MaximisedY(q)
       /\ \A e \in Deltas :
            /\ MaximisedX(r) => MaximisedX(Gravitated(q, e))
            /\ MaximisedY(r) => MaximisedY(Gravitated(q, e))

\* A gravitate call between operations leaves a maximised axis of a client
\* where it is.
C29_StaysMaximised ==
  (pc = "idle" /\ pc' = "idle") =>
    \A c \in heap \cap heap' :
      /\ MaximisedX(cl[c]) => MaximisedX(cl'[c])
      /\ MaximisedY(cl[c]) => MaximisedY(cl'[c])

\* C29: client_gravitate applies its x offset unless x is 0 and the width is
\* the display width, and its y offset unless y is 0 and the height is the
\* display height, each axis decided by itself on the geometry at the call;
\* a client maximised along an axis is never shifted along it by any sequence
\* of gravitate calls.
C29_MaximisedAxisFixed == []C29_EdgeRule /\ [][C29_StaysMaximised]_vars

\* The two gravitate calls of a removal have moved a client that is maximised
\* along x only: y left the input positions, x is still 0.
C29_Witness ==
  /\ pc = "reparent" /\ rc \in heap
  /\ MaximisedX(cl[rc]) /\ cl[rc].height # DisplayH
  /\ cl[rc].win_gravity = NorthWestGravity
  /\ cl[rc].border = 1 /\ cl[rc].old_border = 0
  /\ cl[rc].y = -MaxCoord - 1

\* The window of client c can take the input focus.
Viewable(c) ==
  /\ xwin[c].exists
  /\ \A i \in 1..Len(unmapq[c]) : unmapq[c][i] # "app"
  /\ (xwin[c].parent = "root" \/ xwin[c].frame_mapped)

\* C30 as stated: selecting the selection again leaves the state as it was
\* before the call.
C30_ReselectNoOp ==
  (pc = "idle" /\ current # NULL) => select_client(State, current) = State

\* The publications of select(c): the old selection first, published as not
\* focused unless it is c, then c, published as focused; the state select
\* returns carries them.
C30_Publications(c) ==
  LET t == select_client(State, c)
      p == select_publications(State, c)
  IN /\ p = (IF current # NULL
             THEN << [client |-> current, focused |-> (current = c)] >>
             ELSE << >>) \o << [client |-> c, focused |-> TRUE] >>
     /\ \A i \in 1..Len(p) :
          xwin[p[i].client].exists =>
            t.xwin[p[i].client].net_wm_state =
              IF p[i].focused THEN "focused" ELSE "plain"
     /\ xwin[c].exists => t.s_active = cl[c].window

\* Selecting the selection again: the selection, its border, its focused flag
\* and everything else are as before, but for the input focus, which goes
\* back to a window that can take it.
C30_Reselect ==
  current # NULL =>
    LET c == current
        t == select_client(State, c)
    IN /\ Len(select_publications(State, c)) = 2
       /\ t = [State EXCEPT !.input_focus =
                              IF Viewable(c) THEN cl[c].window ELSE @]
       /\ t.current = c
       /\ xwin[c].frame =>
            t.xwin[c].border_pixel =
              IF cl[c].vdesk = VDESK_FIXED THEN "fc" ELSE "fg"
       /\ xwin[c].exists => t.xwin[c].net_wm_state = "focused"
       /\ input_focus = cl[c].window => t = State

\* C30 (amended): select(c) republishes the state flags of the old selection,
\* after current has been updated, and then those of c; when c is already the
\* selection both publications are made and the state is the same as before
\* the call except that the input focus returns to c's window if it had left
\* it; select(c) after select(c) changes nothing.
C30_SelectIdempotent ==
  pc = "idle" =>
    /\ \A c \in heap :
         /\ C30_Publications(c)
         /\ LET t == select_client(State, c) IN select_client(t, c) = t
    /\ C30_Reselect

\* Client 1, on the fixed desktop, was selected after client 2: 2 was
\* republished as not focused, 1 holds the focus, the fixed colour and the
\* active window.
C30_Witness ==
  /\ heap = {1, 2} /\ current = 1 /\ cl[1].vdesk = VDESK_FIXED
  /\ xwin[2].net_wm_state = "plain" /\ xwin[2].border_pixel = "bg"
  /\ xwin[1].net_wm_state = "focused" /\ xwin[1].border_pixel = "fc"
  /\ input_focus = cl[1].window /\ s_active = cl[1].window

\* The border colour select gives a client on desktop v.
SelectedColour(v) == IF v = VDESK_FIXED THEN "fc" ELSE "fg"

\* Between operations the frame of the selection has the colour of its
\* desktop.
C31_Coloured ==
  (pc = "idle" /\ current # NULL) =>
    xwin[current].border_pixel = SelectedColour(cl[current].vdesk)

\* select(c) and move_to_vdesk(c, v) leave the selection in the colour of the
\* desktop it is on after the call.
C31_SameCall ==
  \A c \in heap :
    /\ State' = select_client(State, c) =>
         xwin'[c].border_pixel = SelectedColour(cl[c].vdesk)
    /\ \A v \in VdeskInputs :
         (c = current /\ State' = client_to_vdesk(State, c, v)) =>
           /\ cl'[c].vdesk = IF valid_vdesk(v) THEN v ELSE cl[c].vdesk
           /\ xwin'[c].border_pixel = SelectedColour(cl'[c].vdesk)

\* C31: after any sequence of select and move_to_vdesk the frame border of
\* the selected client is the fixed colour exactly if the client is on the
\* fixed pseudo-desktop and the active colour otherwise; moving the selection
\* to or from the fixed pseudo-desktop recolours it in the same call.
C31_BorderFollowsDesktop == []C31_Coloured /\ [][C31_SameCall]_vars

\* The selection was moved to a desktop that is not shown: its desktop is
\* published, its frame has the active colour.
C31_Witness ==
  /\ current = 1 /\ cl[1].vdesk # VDESK_FIXED /\ cl[1].vdesk # s_vdesk
  /\ xwin[1].net_wm_desktop = <<cl[1].vdesk>>
  /\ xwin[1].border_pixel = "fg"
  /\ xwin[1].wm_state = "Iconic"

\* C32: the selection never refers to a hidden client: in every state reached
\* by select of a shown client, move_to_vdesk and remove the frame of the
\* selected client is mapped, and the input focus is not on the window of a
\* client whose frame is unmapped.
C32_SelectionShown ==
  /\ (pc = "idle" /\ current # NULL) => xwin[current].frame_mapped
  /\ \A c \in heap : input_focus = cl[c].window => xwin[c].frame_mapped

\* A step that calls remove_client without flagging the client: display_close.
ClosingStep == pc = "idle" /\ pc' = "grab" /\ cl' = cl

\* What a step may do around a signal.
C33_Step ==
  /\ wm_exit' # wm_exit => State' = [State EXCEPT !.wm_exit = 1]
  /\ pc # "idle" => pc' \in {pc, NextPc(pc)}
  /\ ClosingStep => wm_exit = 1 /\ rc' = Head(clients_stacking_order)
  /\ (pc = "idle" /\ wm_exit = 1) => ClosingStep

\* C33: a termination signal, whenever it is delivered, only sets the exit
\* flag: lists, selection, client fields and the ignore-errors flag are as
\* they were; a remove in progress still takes every step to its end; and
\* display_close unmanages the windows only once the event loop has returned.
C33_SignalOnlySetsFlag ==
  [][C33_Step]_vars /\ ((pc # "idle") ~> (pc = "idle"))

\* A signal has arrived in the middle of the withdrawal of the selected
\* client: the flag is set, the transaction is at its reparent statement with
\* the client still linked and selected.
C33_Witness ==
  /\ wm_exit = 1 /\ pc = "reparent"
  /\ cl[rc].remove = 1 /\ current = rc /\ InAllLists(rc)
  /\ ignore_xerror = 1

\* No two monitors of the list share a point.
Disjoint(ms) ==
  \A i \in 1..Len(ms), j \in 1..Len(ms) :
    i < j => \/ ms[i].x + ms[i].width <= ms[j].x
             \/ ms[j].x + ms[j].width <= ms[i].x
             \/ ms[i].y + ms[i].height <= ms[j].y
             \/ ms[j].y + ms[j].height <= ms[i].y

\* The centre of c is within the horizontal, the vertical extent of monitor
\* i, the far edge left out.
WithinX(c, i) ==
  monitors[i].x <= CentreX(c) /\ CentreX(c) < monitors[i].x + monitors[i].width
WithinY(c, i) ==
  monitors[i].y <= CentreY(c) /\ CentreY(c) < monitors[i].y + monitors[i].height

\* No monitor before i holds the centre of c.
FirstChance(c, i) == \A j \in 1..(i - 1) : ~(WithinX(c, j) /\ WithinY(c, j))

\* C34: containment is half-open on both axes: a centre on the left or top
\* edge of a monitor is inside it and one at x + width or y + height is not,
\* so with monitors that do not overlap a centre inside the covered area is
\* in exactly one monitor, the one returned, and with monitors of width 100
\* at x = 0 and x = 100 a client centred at x = 100 gets the monitor at
\* x = 100.
C34_HalfOpen ==
  \A c \in heap :
    LET r == client_monitor(State, c).ret
    IN /\ \A i \in 1..Len(monitors) :
            /\ (CentreX(c) = monitors[i].x /\ WithinY(c, i) /\ FirstChance(c, i))
                 => r = i - 1
            /\ (CentreY(c) = monitors[i].y /\ WithinX(c, i) /\ FirstChance(c, i))
                 => r = i - 1
            /\ (i > 1 /\ CentreX(c) = monitors[i].x + monitors[i].width)
                 => r # i - 1
            /\ (i > 1 /\ CentreY(c) = monitors[i].y + monitors[i].height)
                 => r # i - 1
       /\ (Disjoint(monitors) /\ Holding(c) # {}) => Holding(c) = {r + 1}
       /\ (monitors = ExampleMonitors /\ CentreX(c) = 100 /\ CentreY(c) = 50)
            => monitors[r + 1].x = 100

\* The client is centred at x = 100, on the edge between the monitors at
\* x = 0 and x = 100, and was given the second.
C34_Witness ==
  /\ 1 \in heap /\ monitors = ExampleMonitors
  /\ CentreX(1) = 100 /\ CentreY(1) = 50
  /\ ret = 1

====
